---- MODULE Spec2Model ----
(***************************************************************************)
(* t2play: a layer-shell panel (taskbar, spacer, clock).                    *)
(*                                                                         *)
(* The module models src/main.c: the layout pass (render_to_cairo and the  *)
(* functions it calls), render_frame and the double-buffered pool it       *)
(* draws into, the foreign-toplevel handlers that maintain the registry    *)
(* of tracked windows, and the pointer handlers that hit-test the widget   *)
(* list.                                                                   *)
(*                                                                         *)
(* Strings are sequences of one-character strings, so that the text        *)
(* measurement and the scan over panel_items are computed character by     *)
(* character, as the code and Pango do.  A NULL char* is the value NULL.   *)
(***************************************************************************)
EXTENDS Integers, Sequences, FiniteSets, TLC

VARIABLES
    panel_items,    \* conf->panel_items: the item codes, or NULL
    toplevels,      \* panel->toplevels: the registry, in list order
    widgets,        \* panel->widgets: the widget list, in list order
    width,          \* panel->width
    height,         \* panel->height
    scale,          \* panel->scale
    run_display,    \* panel->run_display
    buffers,        \* panel->buffers[2]
    current_buffer, \* panel->current_buffer: 1 or 2, 0 for NULL
    attached,       \* the buffer last attached and committed to panel->surface, 0 for none
    pointer_x,      \* seat->pointer.x
    now,            \* the wall clock, in seconds
    pc,             \* where main() is: "setup", "roundtrip", "loop" (the top
                    \* of the loop of panel_run), "poll", "read", "clock",
                    \* "render_roundtrip" (in the roundtrip of a render_frame
                    \* that panel_run called), "returned", "destroyed"
                    \* (main has called panel_destroy), "crashed"
    pollfds,        \* panel->pollfds and the display's event queue
    outputs,        \* panel->outputs: the output trackers, in list order
    output,         \* panel->output: an index of outputs, 0 for NULL
    owned,          \* the objects the panel owns besides its windows,
                    \* widgets and buffers: what its pointer to each refers to
    released,       \* what the last handler released, in order
    pass,           \* what the last layout pass computed (its locals)
    frame,          \* what the last handler's call of render_frame did
    press           \* what the last wl_pointer_button call did

vars == <<panel_items, toplevels, widgets, width, height, scale, run_display,
          buffers, current_buffer, attached, pointer_x, now, pc, pollfds,
          outputs, output, owned, released, pass, frame, press>>

----------------------------------------------------------------------------
(* Bounds of the model. *)

\* how many windows the registry holds in the specification of the layout pass
MaxToplevels == 2

\* how many windows are open at the same time in the specifications driven
\* by the compositor's events
MaxWindows == 1

\* how many seconds the wall clock advances during a run
MaxElapsed == 1

\* how many windows are open at the same time in the specification of the
\* registry
MaxRegistry == 3

\* how many times the minute timer of the clock expires during a run
MaxTicks == 1

(* Program constants. *)
BUTTON_PADDING == 8
BUTTON_MAX_WIDTH == 200

NULL == <<"NULL">>

Max(a, b) == IF a >= b THEN a ELSE b

----------------------------------------------------------------------------
(* Text: what the panel measures and draws. *)

Editor == <<"E", "d", "i", "t", "o", "r">>
LongTitle == [i \in 1..20 |-> "W"]
AppId == <<"s", "h">>

Digits == <<"0", "1", "2", "3", "4", "5", "6", "7", "8", "9">>

\* The advance of one glyph in the panel's font, in pixels: a proportional
\* font, in which "1" is narrower than the other digits.
GlyphWidth(c) ==
    CASE c = ":" -> 4
      [] c = "1" -> 6
      [] c \in {Digits[i] : i \in 1..10} -> 8
      [] c = "W" -> 10
      [] c = "?" -> 6
      [] OTHER -> 7

RECURSIVE TextWidthFrom(_, _)
TextWidthFrom(s, i) ==
    IF i > Len(s) THEN 0 ELSE GlyphWidth(s[i]) + TextWidthFrom(s, i + 1)

\* get_text_size(..., &text_width, ...): the pixel width of the laid out text
get_text_size(s) == TextWidthFrom(s, 1)

\* strftime(buf, sizeof(buf), "%H:%M", localtime(&t)), the local time zone being UTC
ClockText(t) ==
    LET h == (t \div 3600) % 24
        m == (t \div 60) % 60
    IN  <<Digits[(h \div 10) + 1], Digits[(h % 10) + 1], ":",
          Digits[(m \div 10) + 1], Digits[(m % 10) + 1]>>

\* time(NULL), for the k-th call of one layout pass: the clock ticks over to
\* the next second before the call numbered roll (roll = 0: it does not tick)
time(t, roll, k) == IF roll # 0 /\ k >= roll THEN t + 1 ELSE t

----------------------------------------------------------------------------
(* The layout pass. *)

\* widgets_free that leaves the list as it is
widgets_free_keep(ws) == ws

widgets_free(ws) == <<>>

\* widget_add that gives up the list when calloc fails
widget_add_drop_all(ws, x, w, toplevel, ok) ==
    IF ~ok THEN <<>>
    ELSE Append(ws, [x |-> x, width |-> w, toplevel |-> toplevel])

\* ok = FALSE: calloc returned NULL
widget_add(ws, x, w, toplevel, ok) ==
    IF ~ok THEN ws
    ELSE Append(ws, [x |-> x, width |-> w, toplevel |-> toplevel])

\* the label render_taskbar measures and draws
toplevel_label(toplevel) ==
    IF toplevel.title # NULL THEN toplevel.title
    ELSE IF toplevel.app_id # NULL THEN toplevel.app_id
    ELSE <<"?">>

\* btn_width without the clamp at BUTTON_MAX_WIDTH
btn_width_unclamped(toplevel) ==
    get_text_size(toplevel_label(toplevel)) + 2 * BUTTON_PADDING

btn_width(toplevel) ==
    LET w == get_text_size(toplevel_label(toplevel)) + 2 * BUTTON_PADDING
    IN  IF w > BUTTON_MAX_WIDTH THEN BUTTON_MAX_WIDTH ELSE w

\* the label of taskbar_natural_width with the app_id before the title
natural_label_app_id_first(toplevel) ==
    IF toplevel.app_id # NULL THEN toplevel.app_id
    ELSE IF toplevel.title # NULL THEN toplevel.title
    ELSE <<"?">>

\* the label taskbar_natural_width measures
natural_label(toplevel) ==
    IF toplevel.title # NULL THEN toplevel.title
    ELSE IF toplevel.app_id # NULL THEN toplevel.app_id
    ELSE <<"?">>

\* the btn_width of taskbar_natural_width
natural_btn_width(toplevel) ==
    LET w == get_text_size(natural_label(toplevel)) + 2 * BUTTON_PADDING
    IN  IF w > BUTTON_MAX_WIDTH THEN BUTTON_MAX_WIDTH ELSE w

RECURSIVE taskbar_natural_total(_, _, _)
taskbar_natural_total(tls, i, total) ==
    IF i > Len(tls) THEN total
    ELSE taskbar_natural_total(tls, i + 1,
            total + natural_btn_width(tls[i]) + BUTTON_PADDING)

taskbar_natural_width(tls) == taskbar_natural_total(tls, 1, BUTTON_PADDING)

\* clock_natural_width without the padding of the clock
clock_natural_width_text(t) == get_text_size(ClockText(t))

clock_natural_width(t) == get_text_size(ClockText(t)) + 2 * BUTTON_PADDING

\* The loop of render_taskbar. adds counts the calls of widget_add of the pass;
\* the call numbered failAt fails.
RECURSIVE taskbar_buttons(_, _, _, _, _, _)
taskbar_buttons(ws, adds, tls, i, x, failAt) ==
    IF i > Len(tls) THEN [widgets |-> ws, adds |-> adds, x |-> x]
    ELSE LET w == btn_width(tls[i])
         IN  taskbar_buttons(
                 widget_add(ws, x, w, tls[i].handle, adds + 1 # failAt),
                 adds + 1, tls, i + 1, x + w + BUTTON_PADDING, failAt)

\* render_taskbar returning the extent without the padding before the buttons
render_taskbar_short(ws, adds, tls, start_x, failAt) ==
    LET r == taskbar_buttons(ws, adds, tls, 1, start_x + BUTTON_PADDING, failAt)
    IN  [widgets |-> r.widgets, adds |-> r.adds,
         ret |-> r.x - start_x - BUTTON_PADDING]

render_taskbar(ws, adds, tls, start_x, failAt) ==
    LET r == taskbar_buttons(ws, adds, tls, 1, start_x + BUTTON_PADDING, failAt)
    IN  [widgets |-> r.widgets, adds |-> r.adds, ret |-> r.x - start_x]

\* render_clock returning 0 instead of the width of the clock
render_clock_no_width(ws, adds, t, start_x, failAt) ==
    LET w == get_text_size(ClockText(t)) + 2 * BUTTON_PADDING
    IN  [widgets |-> widget_add(ws, start_x, w, 0, adds + 1 # failAt),
         adds |-> adds + 1, ret |-> 0]

\* where render_clock draws the text of the clock that starts at start_x
clock_text_x(start_x) == start_x + BUTTON_PADDING

render_clock(ws, adds, t, start_x, failAt) ==
    LET w == get_text_size(ClockText(t)) + 2 * BUTTON_PADDING
    IN  [widgets |-> widget_add(ws, start_x, w, 0, adds + 1 # failAt),
         adds |-> adds + 1, ret |-> w]

\* strchr(panel_items, c) != NULL
strchr(items, c) == \E i \in 1..Len(items) : items[i] = c

\* the first loop of render_to_cairo counting the T items only
RECURSIVE fixed_width_loop_no_clock(_, _, _, _, _, _, _)
fixed_width_loop_no_clock(items, i, tls, t, roll, reads, fixed) ==
    IF i > Len(items) THEN [fixed |-> fixed, reads |-> reads]
    ELSE IF items[i] = "T" THEN
        fixed_width_loop_no_clock(items, i + 1, tls, t, roll, reads,
            fixed + taskbar_natural_width(tls))
    ELSE IF items[i] = "C" THEN
        fixed_width_loop_no_clock(items, i + 1, tls, t, roll, reads + 1, fixed)
    ELSE fixed_width_loop_no_clock(items, i + 1, tls, t, roll, reads, fixed)

\* The first loop of render_to_cairo: the natural widths of the T and C items.
\* reads counts the calls of time() of the pass.
RECURSIVE fixed_width_loop(_, _, _, _, _, _, _)
fixed_width_loop(items, i, tls, t, roll, reads, fixed) ==
    IF i > Len(items) THEN [fixed |-> fixed, reads |-> reads]
    ELSE IF items[i] = "T" THEN
        fixed_width_loop(items, i + 1, tls, t, roll, reads,
            fixed + taskbar_natural_width(tls))
    ELSE IF items[i] = "C" THEN
        fixed_width_loop(items, i + 1, tls, t, roll, reads + 1,
            fixed + clock_natural_width(time(t, roll, reads + 1)))
    ELSE fixed_width_loop(items, i + 1, tls, t, roll, reads, fixed)

\* the spacer width without the clamp at 0
spacer_no_clamp(w, fixed) == w - fixed

spacer_clamp(w, fixed) ==
    LET spacer_width == w - fixed
    IN  IF spacer_width < 0 THEN 0 ELSE spacer_width

\* layout_item that draws a clock for a code it does not know
layout_item_unknown_clock(L, c, tls, t, roll, failAt, spacer_width) ==
    IF c = "T" THEN
        LET r == render_taskbar(L.widgets, L.adds, tls, L.x, failAt)
        IN  [widgets |-> r.widgets, adds |-> r.adds, reads |-> L.reads,
             x |-> L.x + r.ret]
    ELSE IF c = "S" THEN [L EXCEPT !.x = L.x + spacer_width]
    ELSE
        LET r == render_clock(L.widgets, L.adds, time(t, roll, L.reads + 1),
                              L.x, failAt)
        IN  [widgets |-> r.widgets, adds |-> r.adds, reads |-> L.reads + 1,
             x |-> L.x + r.ret]

\* layout_item with a spacer that takes half of the leftover width
layout_item_split(L, c, tls, t, roll, failAt, spacer_width) ==
    IF c = "T" THEN
        LET r == render_taskbar(L.widgets, L.adds, tls, L.x, failAt)
        IN  [widgets |-> r.widgets, adds |-> r.adds, reads |-> L.reads,
             x |-> L.x + r.ret]
    ELSE IF c = "C" THEN
        LET r == render_clock(L.widgets, L.adds, time(t, roll, L.reads + 1),
                              L.x, failAt)
        IN  [widgets |-> r.widgets, adds |-> r.adds, reads |-> L.reads + 1,
             x |-> L.x + r.ret]
    ELSE IF c = "S" THEN [L EXCEPT !.x = L.x + (spacer_width \div 2)]
    ELSE L

\* One character of the second loop of render_to_cairo.
\* L: the widget list, the counts of widget_add and time() calls, and the cursor x.
layout_item(L, c, tls, t, roll, failAt, spacer_width) ==
    IF c = "T" THEN
        LET r == render_taskbar(L.widgets, L.adds, tls, L.x, failAt)
        IN  [widgets |-> r.widgets, adds |-> r.adds, reads |-> L.reads,
             x |-> L.x + r.ret]
    ELSE IF c = "C" THEN
        LET r == render_clock(L.widgets, L.adds, time(t, roll, L.reads + 1),
                              L.x, failAt)
        IN  [widgets |-> r.widgets, adds |-> r.adds, reads |-> L.reads + 1,
             x |-> L.x + r.ret]
    ELSE IF c = "S" THEN [L EXCEPT !.x = L.x + spacer_width]
    ELSE L

RECURSIVE layout_loop(_, _, _, _, _, _, _, _)
layout_loop(items, i, L, tls, t, roll, failAt, spacer_width) ==
    IF i > Len(items) THEN L
    ELSE layout_loop(items, i + 1,
            layout_item(L, items[i], tls, t, roll, failAt, spacer_width),
            tls, t, roll, failAt, spacer_width)

\* render_to_cairo: the new widget list and the locals of the pass.
render_to_cairo(items, tls, w, ws, t, roll, failAt) ==
    LET freed == widgets_free(ws)
    IN  IF items = NULL
        THEN [widgets |-> freed, adds |-> 0, reads |-> 0, x |-> 0,
              spacer_width |-> 0]
        ELSE LET sized == IF strchr(items, "S")
                          THEN fixed_width_loop(items, 1, tls, t, roll, 0, 0)
                          ELSE [fixed |-> 0, reads |-> 0]
                 spacer_width == IF strchr(items, "S")
                                 THEN spacer_clamp(w, sized.fixed)
                                 ELSE 0
                 L == layout_loop(items, 1,
                         [widgets |-> freed, adds |-> 0, reads |-> sized.reads,
                          x |-> 0],
                         tls, t, roll, failAt, spacer_width)
             IN  [widgets |-> L.widgets, adds |-> L.adds, reads |-> L.reads,
                  x |-> L.x, spacer_width |-> spacer_width]

----------------------------------------------------------------------------
(* The buffer pool (pool.c): two buffers; width = 0 is a buffer without     *)
(* backing memory.                                                         *)

NoBuffer == [busy |-> FALSE, width |-> 0, height |-> 0]

free_buffers(pool) == {i \in 1..2 : ~pool[i].busy}

\* get_next_buffer without the test of the busy flag: it hands out buffer 1
get_next_buffer_any(pool, pick, w, h, ok) ==
    [pool |-> [pool EXCEPT ![1] = [busy |-> TRUE, width |-> w, height |-> h]],
     buffer |-> 1]

\* get_next_buffer(shm, pool, w, h): pick is the free buffer the pool hands
\* out, ok = FALSE is a failed allocation of its backing memory.
get_next_buffer(pool, pick, w, h, ok) ==
    IF pick \notin free_buffers(pool) THEN [pool |-> pool, buffer |-> 0]
    ELSE IF pool[pick].width = w /\ pool[pick].height = h
    THEN [pool |-> [pool EXCEPT ![pick].busy = TRUE], buffer |-> pick]
    ELSE IF ~ok THEN [pool |-> [pool EXCEPT ![pick] = NoBuffer], buffer |-> 0]
    ELSE [pool |-> [pool EXCEPT ![pick] =
                       [busy |-> TRUE, width |-> w, height |-> h]],
          buffer |-> pick]

\* the candidates for pick: a free buffer, or 0 when there is none
pool_picks(pool) == IF free_buffers(pool) = {} THEN {0} ELSE free_buffers(pool)

\* whether get_next_buffer has to allocate memory for the buffer it picks
needs_alloc(pool, pick, w, h) ==
    pick # 0 /\ ~(pool[pick].width = w /\ pool[pick].height = h)

----------------------------------------------------------------------------
(* render_frame. The handlers call it with the state they have just         *)
(* written: rd, tls, w, h, sc are the new run_display, toplevels, width,   *)
(* height and scale. Rolls and Fails are the inputs the environment may    *)
(* give the pass: when the clock ticks, and which widget_add fails.        *)

NoPass ==
    [ran |-> FALSE, again |-> FALSE, x |-> 0, spacer_width |-> 0, roll |-> 0,
     failAt |-> 0]
\* result: "none" (render_frame was not called), "skipped" (it returned at once),
\* "dropped" (get_next_buffer returned NULL) or "submitted"; alloc: whether
\* get_next_buffer allocated the buffer's memory ("ok"), failed to ("failed"),
\* or had nothing to allocate ("none")
\* by: the handler that called render_frame
NoFrame == [result |-> "none", alloc |-> "none", by |-> "none"]

\* the calls of time() one pass over items makes
time_calls(items) ==
    IF items = NULL THEN 0
    ELSE LET c == Cardinality({i \in 1..Len(items) : items[i] = "C"})
         IN  IF strchr(items, "S") THEN 2 * c ELSE c

\* the calls of widget_add one pass over items makes
widget_calls(items, tls) ==
    IF items = NULL THEN 0
    ELSE Cardinality({i \in 1..Len(items) : items[i] = "T"}) * Len(tls)
         + Cardinality({i \in 1..Len(items) : items[i] = "C"})

\* the wall clock at the start of a run: 09:05:59 and 09:10:59
StartTimes == {32759, 33059}

\* whether the run still lets the clock advance by a second
can_tick(t) == \E t0 \in StartTimes : t0 <= t /\ t < t0 + MaxElapsed

\* render_frame without the test of get_next_buffer's result: it goes on with
\* the first buffer of the pool
frame_attach_unchecked(buffer, att) == IF buffer = 0 THEN 1 ELSE buffer

\* the buffer attached to the surface after render_frame has got buffer (0 for
\* NULL) from get_next_buffer, att being the one attached before
frame_attach(buffer, att) == IF buffer = 0 THEN att ELSE buffer

\* render_frame that keeps the widget list of the shown frame when it gets no
\* buffer
render_frame_keep_on_drop(by, rd, tls, w, h, sc, Rolls, Fails) ==
    IF ~rd \/ w = 0 \/ h = 0
    THEN /\ frame' = [result |-> "skipped", alloc |-> "none", by |-> by]
         /\ UNCHANGED <<widgets, pass, buffers, current_buffer, attached, now>>
    ELSE \E roll \in Rolls, failAt \in Fails, pick \in pool_picks(buffers),
            ok \in BOOLEAN :
         \E r \in {render_to_cairo(panel_items, tls, w, widgets, now, roll, failAt)},
            g \in {get_next_buffer(buffers, pick, w * sc, h * sc, ok)} :
             /\ roll # 0 => can_tick(now)
             /\ (ok = FALSE) => needs_alloc(buffers, pick, w * sc, h * sc)
             /\ widgets' = IF g.buffer = 0 THEN widgets ELSE r.widgets
             /\ pass' = [ran |-> TRUE, again |-> pass.ran, x |-> r.x,
                         spacer_width |-> r.spacer_width,
                         roll |-> roll, failAt |-> failAt]
             /\ now' = IF roll = 0 THEN now ELSE now + 1
             /\ buffers' = g.pool
             /\ current_buffer' = g.buffer
             /\ attached' = frame_attach(g.buffer, attached)
             /\ frame' = [result |-> IF g.buffer = 0 THEN "dropped" ELSE "submitted",
                          alloc |-> IF ~needs_alloc(buffers, pick, w * sc, h * sc)
                                    THEN "none"
                                    ELSE IF ok THEN "ok" ELSE "failed",
                          by |-> by]

\* render_frame: the layout pass, then the buffer; the widget list is
\* replaced before get_next_buffer is asked
render_frame(by, rd, tls, w, h, sc, Rolls, Fails) ==
    IF ~rd \/ w = 0 \/ h = 0
    THEN /\ frame' = [result |-> "skipped", alloc |-> "none", by |-> by]
         /\ UNCHANGED <<widgets, pass, buffers, current_buffer, attached, now>>
    ELSE \E roll \in Rolls, failAt \in Fails, pick \in pool_picks(buffers),
            ok \in BOOLEAN :
         \E r \in {render_to_cairo(panel_items, tls, w, widgets, now, roll, failAt)},
            g \in {get_next_buffer(buffers, pick, w * sc, h * sc, ok)} :
             /\ roll # 0 => can_tick(now)
             /\ (ok = FALSE) => needs_alloc(buffers, pick, w * sc, h * sc)
             /\ widgets' = r.widgets
             /\ pass' = [ran |-> TRUE, again |-> pass.ran, x |-> r.x,
                         spacer_width |-> r.spacer_width,
                         roll |-> roll, failAt |-> failAt]
             /\ now' = IF roll = 0 THEN now ELSE now + 1
             /\ buffers' = g.pool
             /\ current_buffer' = g.buffer
             /\ attached' = frame_attach(g.buffer, attached)
             /\ frame' = [result |-> IF g.buffer = 0 THEN "dropped" ELSE "submitted",
                          alloc |-> IF ~needs_alloc(buffers, pick, w * sc, h * sc)
                                    THEN "none"
                                    ELSE IF ok THEN "ok" ELSE "failed",
                          by |-> by]

----------------------------------------------------------------------------
(* The objects of the panel. A pointer of the panel refers to nothing yet   *)
(* ("none"), to a live object ("live"), to an object that was released     *)
(* while the pointer was kept ("dangling"), or was cleared with the        *)
(* release ("null").                                                       *)

Objects ==
    {"font_description", "layer_surface", "surface", "layer_shell",
     "cursor_shape_manager", "seat", "cursor_surface", "toplevel_manager",
     "outputs", "compositor", "shm", "display", "fd_timer", "fd_signal",
     "fd_clock"}

\* the objects whose pointer panel_destroy and seat_destroy leave as it is
KeptPointers ==
    {"font_description", "layer_surface", "surface", "layer_shell",
     "cursor_shape_manager", "compositor", "shm", "display"}

\* the objects after panel_setup; cursor_shape: the compositor offers
\* wp_cursor_shape_manager_v1, without which each seat gets a cursor surface
owned_setup(items, cursor_shape) ==
    [o \in Objects |->
        CASE o = "cursor_shape_manager" ->
                 IF cursor_shape THEN "live" ELSE "none"
          [] o = "cursor_surface" -> IF cursor_shape THEN "none" ELSE "live"
          [] o = "fd_timer" -> "none"
          [] o = "fd_clock" ->
                 IF items # NULL /\ strchr(items, "C") THEN "live" ELSE "none"
          [] OTHER -> "live"]

----------------------------------------------------------------------------
(* The handlers. Each action is one callback, run to its end. *)

NoPress == [state |-> "none", hit |-> 0, activated |-> 0]

Handles == 1..MaxWindows

\* a release of object, which the panel's pointer referred to as was
Release(object, id, was) == [object |-> object, id |-> id, was |-> was]

\* toplevel_destroy that frees the entry without destroying the handle
toplevel_destroy_entry_only(toplevel) ==
    <<Release("toplevel", toplevel.handle, "live")>>

\* toplevel_destroy: the handle is destroyed, then the entry is freed
toplevel_destroy(toplevel) ==
    <<Release("handle", toplevel.handle, "live"),
      Release("toplevel", toplevel.handle, "live")>>

remove_at(seq, i) == SubSeq(seq, 1, i - 1) \o SubSeq(seq, i + 1, Len(seq))

\* ok = FALSE: calloc returned NULL
\* wl_list_insert at the head of panel->toplevels
toplevels_insert_head(tls, toplevel) == <<toplevel>> \o tls

\* wl_list_insert(panel->toplevels.prev, &toplevel->link)
toplevels_insert(tls, toplevel) == Append(tls, toplevel)

handle_toplevel_manager_toplevel(h, ok) ==
    /\ \A i \in 1..Len(toplevels) : toplevels[i].handle # h
    /\ toplevels' = IF ~ok THEN toplevels
                    ELSE toplevels_insert(toplevels,
                            [handle |-> h, title |-> NULL, app_id |-> NULL,
                             active |-> FALSE])
    /\ frame' = [NoFrame EXCEPT !.alloc = IF ok THEN "none" ELSE "failed"]
    /\ released' = <<>>
    /\ UNCHANGED <<outputs, output, owned, pollfds, panel_items, widgets,
                   width, height, scale, run_display, buffers, current_buffer,
                   attached, pointer_x, now, pc, pass, press>>

\* ok = FALSE: strdup returned NULL
handle_toplevel_title(i, title, ok) ==
    /\ i \in 1..Len(toplevels)
    /\ toplevels' = [toplevels EXCEPT ![i].title = IF ok THEN title ELSE NULL]
    /\ frame' = NoFrame
    /\ released' = <<>>
    /\ UNCHANGED <<outputs, output, owned, pollfds, panel_items, widgets,
                   width, height, scale, run_display, buffers, current_buffer,
                   attached, pointer_x, now, pc, pass, press>>

handle_toplevel_app_id(i, app_id, ok) ==
    /\ i \in 1..Len(toplevels)
    /\ toplevels' = [toplevels EXCEPT ![i].app_id = IF ok THEN app_id ELSE NULL]
    /\ frame' = NoFrame
    /\ released' = <<>>
    /\ UNCHANGED <<outputs, output, owned, pollfds, panel_items, widgets,
                   width, height, scale, run_display, buffers, current_buffer,
                   attached, pointer_x, now, pc, pass, press>>

\* the loop of handle_toplevel_state over the entries of the wl_array state
RECURSIVE state_loop(_, _, _)
state_loop(state, k, active) ==
    IF k > Len(state) THEN active
    ELSE state_loop(state, k + 1,
                    IF state[k] = "activated" THEN TRUE ELSE active)

\* handle_toplevel_state without the reset of the flag before the loop
toplevel_state_no_reset(toplevel, state) ==
    [toplevel EXCEPT !.active = state_loop(state, 1, toplevel.active)]

\* the toplevel after handle_toplevel_state
toplevel_state(toplevel, state) ==
    [toplevel EXCEPT !.active = state_loop(state, 1, FALSE)]

\* state: the entries of the wl_array
handle_toplevel_state(i, state) ==
    /\ i \in 1..Len(toplevels)
    /\ toplevels' = [toplevels EXCEPT ![i] = toplevel_state(@, state)]
    /\ frame' = NoFrame
    /\ released' = <<>>
    /\ UNCHANGED <<outputs, output, owned, pollfds, panel_items, widgets,
                   width, height, scale, run_display, buffers, current_buffer,
                   attached, pointer_x, now, pc, pass, press>>

handle_toplevel_done(i, Rolls, Fails) ==
    /\ i \in 1..Len(toplevels)
    /\ render_frame("done", run_display, toplevels, width, height, scale,
                    Rolls, Fails)
    /\ released' = <<>>
    /\ UNCHANGED <<outputs, output, owned, pollfds, panel_items, toplevels,
                   width, height, scale, run_display, pointer_x, pc, press>>

\* handle_toplevel_closed without its call of render_frame
handle_toplevel_closed_no_render(i, Rolls, Fails) ==
    /\ i \in 1..Len(toplevels)
    /\ toplevels' = remove_at(toplevels, i)
    /\ frame' = NoFrame
    /\ released' = toplevel_destroy(toplevels[i])
    /\ UNCHANGED <<outputs, output, owned, pollfds, panel_items, widgets,
                   width, height, scale, run_display, buffers, current_buffer,
                   attached, pointer_x, now, pc, pass, press>>

\* toplevel_destroy, then render_frame
handle_toplevel_closed(i, Rolls, Fails) ==
    /\ i \in 1..Len(toplevels)
    /\ toplevels' = remove_at(toplevels, i)
    /\ render_frame("closed", run_display, remove_at(toplevels, i), width,
                    height, scale, Rolls, Fails)
    /\ released' = toplevel_destroy(toplevels[i])
    /\ UNCHANGED <<outputs, output, owned, pollfds, panel_items, width,
                   height, scale, run_display, pointer_x, pc, press>>

\* layer_surface_configure drawing before the new size is stored
layer_surface_configure_stale(w, h, Rolls, Fails) ==
    /\ pc # "setup"
    /\ width' = w
    /\ height' = h
    /\ render_frame("configure", run_display, toplevels, width, height, scale,
                    Rolls, Fails)
    /\ released' = <<>>
    /\ UNCHANGED <<outputs, output, owned, pollfds, panel_items, toplevels,
                   scale, run_display, pointer_x, pc, press>>

\* layer_surface_configure: the size is stored, the configure is acknowledged
\* (a request, no state of the panel), and render_frame draws at the new size
layer_surface_configure(w, h, Rolls, Fails) ==
    /\ pc # "setup"
    /\ width' = w
    /\ height' = h
    /\ render_frame("configure", run_display, toplevels, w, h, scale,
                    Rolls, Fails)
    /\ released' = <<>>
    /\ UNCHANGED <<outputs, output, owned, pollfds, panel_items, toplevels,
                   scale, run_display, pointer_x, pc, press>>

\* output_scale without the test of panel->output
output_scale_any(o, factor, Rolls, Fails) ==
    /\ pc # "setup"
    /\ o \in 1..Len(outputs)
    /\ outputs' = [outputs EXCEPT ![o].scale = factor]
    /\ scale' = factor
    /\ render_frame("scale", run_display, toplevels, width, height,
                    factor, Rolls, Fails)
    /\ released' = <<>>
    /\ UNCHANGED <<output, owned, pollfds, panel_items, toplevels, width,
                   height, run_display, pointer_x, pc, press>>

\* output_scale: the factor is recorded on the tracker; the panel follows only
\* the tracker that panel->output points to. update_all_cursors touches the
\* cursor surfaces of the seats only.
output_scale(o, factor, Rolls, Fails) ==
    /\ pc # "setup"
    /\ o \in 1..Len(outputs)
    /\ outputs' = [outputs EXCEPT ![o].scale = factor]
    /\ IF output = o
       THEN /\ scale' = factor
            /\ render_frame("scale", run_display, toplevels, width, height,
                            factor, Rolls, Fails)
       ELSE /\ frame' = NoFrame
            /\ UNCHANGED <<scale, widgets, pass, buffers, current_buffer,
                           attached, now>>
    /\ released' = <<>>
    /\ UNCHANGED <<output, owned, pollfds, panel_items, toplevels, width,
                   height, run_display, pointer_x, pc, press>>

\* surface_enter: the tracker of the entered output becomes panel->output
surface_enter(o, Rolls, Fails) ==
    /\ pc # "setup"
    /\ o \in 1..Len(outputs)
    /\ output' = o
    /\ scale' = outputs[o].scale
    /\ render_frame("enter", run_display, toplevels, width, height,
                    outputs[o].scale, Rolls, Fails)
    /\ released' = <<>>
    /\ UNCHANGED <<outputs, owned, pollfds, panel_items, toplevels, width,
                   height, run_display, pointer_x, pc, press>>

\* conf->output: no option of the configuration file sets it
conf_output == NULL

\* handle_global for a wl_output: a tracker is put at the head of
\* panel->outputs unless an output has been selected. ok = FALSE: calloc
\* returned NULL.
handle_global_output(name, ok) ==
    /\ pc = "registry"
    /\ \A o \in 1..Len(outputs) : outputs[o].wl_name # name
    /\ outputs' = IF output = 0 /\ ok
                  THEN <<[wl_name |-> name, scale |-> 1]>> \o outputs
                  ELSE outputs
    /\ frame' = [NoFrame EXCEPT !.by = "global"]
    /\ released' = <<>>
    /\ UNCHANGED <<output, owned, pollfds, panel_items, toplevels, widgets,
                   width, height, scale, run_display, buffers, current_buffer,
                   attached, pointer_x, now, pc, pass, press>>

\* handle_global for a wl_seat: the seat is bound and put into panel->seats
handle_global_seat ==
    /\ pc = "registry"
    /\ owned["seat"] = "none"
    /\ owned' = [owned EXCEPT !["seat"] = "live"]
    /\ frame' = [NoFrame EXCEPT !.by = "global"]
    /\ released' = <<>>
    /\ UNCHANGED <<outputs, output, pollfds, panel_items, toplevels, widgets,
                   width, height, scale, run_display, buffers, current_buffer,
                   attached, pointer_x, now, pc, pass, press>>

\* output_name: the tracker whose name is conf->output is selected; name is
\* the name the compositor gives the output
output_name(o, name) ==
    /\ pc = "registry"
    /\ o \in 1..Len(outputs)
    /\ output' = IF output = 0 /\ conf_output # NULL /\ conf_output = name
                 THEN o ELSE output
    /\ frame' = [NoFrame EXCEPT !.by = "name"]
    /\ released' = <<>>
    /\ UNCHANGED <<outputs, owned, pollfds, panel_items, toplevels, widgets,
                   width, height, scale, run_display, buffers, current_buffer,
                   attached, pointer_x, now, pc, pass, press>>

\* handle_global_remove: panel->output->wl_name is read first. With
\* panel->output NULL the read is undefined: the process dies (fault), or the
\* comparison has either outcome (same) and the handler goes on to the seats.
handle_global_remove(name, seat_name, fault, same) ==
    /\ pc = "registry"
    /\ (fault \/ same) => output = 0
    /\ run_display' = IF output = 0
                      THEN (IF same THEN FALSE ELSE run_display)
                      ELSE IF outputs[output].wl_name = name
                      THEN FALSE ELSE run_display
    /\ pc' = IF fault THEN "crashed" ELSE pc
    /\ IF ~fault /\ name = seat_name /\ owned["seat"] = "live"
       THEN /\ owned' = [owned EXCEPT !["seat"] = "null"]
            /\ released' = <<Release("seat", 0, "live")>>
       ELSE /\ owned' = owned
            /\ released' = <<>>
    /\ frame' = [NoFrame EXCEPT !.by = "global_remove"]
    /\ UNCHANGED <<outputs, output, pollfds, panel_items, toplevels, widgets,
                   width, height, scale, buffers, current_buffer, attached,
                   pointer_x, now, pass, press>>

\* the wl_buffer release listener of the pool
buffer_release(i) ==
    /\ buffers[i].busy
    /\ buffers' = [buffers EXCEPT ![i].busy = FALSE]
    /\ frame' = NoFrame
    /\ released' = <<>>
    /\ UNCHANGED <<outputs, output, owned, pollfds, panel_items, toplevels,
                   widgets, width, height, scale, run_display, current_buffer,
                   attached, pointer_x, now, pc, pass, press>>

\* panel_run up to its first wl_display_roundtrip
panel_run_start ==
    /\ pc = "setup"
    /\ run_display' = TRUE
    /\ pc' = "roundtrip"
    /\ frame' = NoFrame
    /\ released' = <<>>
    /\ UNCHANGED <<outputs, output, owned, pollfds, panel_items, toplevels,
                   widgets, width, height, scale, buffers, current_buffer,
                   attached, pointer_x, now, pass, press>>

\* while (panel->run_display): into the loop, or out of panel_run
while_test(rd) == IF rd THEN "loop" ELSE "returned"

\* where panel_run is after the work of its render_frame: a frame that was
\* committed is followed by the wl_display_roundtrip of render_frame, in
\* which the display dispatches events; else render_frame has returned
render_next(result, rd) ==
    IF result = "submitted" THEN "render_roundtrip" ELSE while_test(rd)

\* panel_run: the render_frame before the loop, and the first test of the loop
panel_run_render(Rolls, Fails) ==
    /\ pc = "roundtrip"
    /\ render_frame("panel_run", run_display, toplevels, width, height, scale,
                    Rolls, Fails)
    /\ pc' = render_next(frame'.result, run_display)
    /\ released' = <<>>
    /\ UNCHANGED <<outputs, output, owned, pollfds, panel_items, toplevels,
                   width, height, scale, run_display, pointer_x, press>>

----------------------------------------------------------------------------
(* panel_run's loop. One action per step of an iteration; the handlers the  *)
(* display dispatches are the actions above. The descriptors become        *)
(* readable by the actions of the environment.                             *)

\* the descriptors panel_setup opens: the timer of close_timeout stays at -1,
\* close_timeout being 0, and the clock's timer needs a C in panel_items
armed_fds(items) ==
    {"WAYLAND", "SIGNAL"}
        \cup (IF items # NULL /\ strchr(items, "C") THEN {"CLOCK"} ELSE {})

\* the compositor has sent events
wayland_readable ==
    /\ pc \in {"loop", "poll", "read", "clock"}
    /\ "WAYLAND" \notin pollfds.ready
    /\ pollfds' = [pollfds EXCEPT !.ready = @ \cup {"WAYLAND"}]
    /\ frame' = NoFrame
    /\ released' = <<>>
    /\ UNCHANGED <<outputs, output, owned, panel_items, toplevels, widgets,
                   width, height, scale, run_display, buffers, current_buffer,
                   attached, pointer_x, now, pc, pass, press>>

\* SIGINT or SIGTERM, which are blocked and arrive at the signalfd
signal_arrives ==
    /\ pc \in {"roundtrip", "loop", "poll", "read", "clock"}
    /\ "SIGNAL" \notin pollfds.ready
    /\ pollfds' = [pollfds EXCEPT !.ready = @ \cup {"SIGNAL"}]
    /\ frame' = NoFrame
    /\ released' = <<>>
    /\ UNCHANGED <<outputs, output, owned, panel_items, toplevels, widgets,
                   width, height, scale, run_display, buffers, current_buffer,
                   attached, pointer_x, now, pc, pass, press>>

\* the minutes the clock's timer has counted since the start
ticks(t) == (t \div 60) - (32759 \div 60)

\* the wall clock reaches it_value: the clock's timer expires and is set to
\* expire again it_interval later
clock_expires ==
    /\ pc \in {"roundtrip", "loop", "poll", "read", "clock"}
    /\ "CLOCK" \in pollfds.armed
    /\ ticks(now) < MaxTicks
    /\ now < pollfds.clock_timer.it_value
    /\ now' = pollfds.clock_timer.it_value
    /\ pollfds' = [pollfds EXCEPT
                      !.ready = @ \cup {"CLOCK"},
                      !.clock_timer.it_value =
                          @ + pollfds.clock_timer.it_interval]
    /\ frame' = NoFrame
    /\ released' = <<>>
    /\ UNCHANGED <<outputs, output, owned, panel_items, toplevels, widgets,
                   width, height, scale, run_display, buffers, current_buffer,
                   attached, pointer_x, pc, pass, press>>

\* the flush of the loop that leaves the loop on EAGAIN as on any error
flush_next_any_error(result, rd) ==
    IF result # "ok" THEN "returned"
    ELSE IF ~rd THEN "returned"
    ELSE "poll"

\* where the loop goes after wl_display_flush; result: "ok", or the errno of
\* a flush that returned -1
flush_next(result, rd) ==
    IF result \notin {"ok", "EAGAIN"} THEN "returned"
    ELSE IF ~rd THEN "returned"
    ELSE "poll"

\* The queue is empty: wl_display_prepare_read returns 0, then
\* wl_display_flush and the test of run_display. On a display that has been
\* disconnected the two calls are undefined: the process may die ("SIGSEGV"),
\* or they return as on a live display.
loop_flush(result) ==
    /\ pc = "loop"
    /\ result = "SIGSEGV" => owned["display"] # "live"
    /\ pc' = IF result = "SIGSEGV" THEN "crashed"
             ELSE flush_next(result, run_display)
    /\ pollfds' = [pollfds EXCEPT !.queued = FALSE, !.flush = result,
                                  !.intent = TRUE]
    /\ frame' = NoFrame
    /\ released' = <<>>
    /\ UNCHANGED <<outputs, output, owned, panel_items, toplevels, widgets,
                   width, height, scale, run_display, buffers, current_buffer,
                   attached, pointer_x, now, pass, press>>

\* poll(panel->pollfds, NR_FDS, -1) returns when a descriptor is readable
loop_poll ==
    /\ pc = "poll"
    /\ pollfds.ready \cap pollfds.armed # {}
    /\ pc' = "read"
    /\ pollfds' = [pollfds EXCEPT !.revents = pollfds.ready \cap pollfds.armed]
    /\ frame' = NoFrame
    /\ released' = <<>>
    /\ UNCHANGED <<outputs, output, owned, panel_items, toplevels, widgets,
                   width, height, scale, run_display, buffers, current_buffer,
                   attached, pointer_x, now, pass, press>>

\* the tests after poll() that look at the signal only after the clock
after_poll_clock_first(revents) ==
    IF "CLOCK" \in revents THEN "clock"
    ELSE IF "TIMER" \in revents THEN "returned"
    ELSE IF "SIGNAL" \in revents THEN "returned"
    ELSE "loop"

\* the tests after poll() without the one of the signal
after_poll_no_signal(revents) ==
    IF "TIMER" \in revents THEN "returned"
    ELSE IF "CLOCK" \in revents THEN "clock"
    ELSE "loop"

\* the tests of revents after poll(): where the loop goes
after_poll(revents) ==
    IF "TIMER" \in revents THEN "returned"
    ELSE IF "SIGNAL" \in revents THEN "returned"
    ELSE IF "CLOCK" \in revents THEN "clock"
    ELSE "loop"

\* wl_display_read_events or wl_display_cancel_read, then the tests of revents
loop_read ==
    /\ pc = "read"
    /\ pc' = after_poll(pollfds.revents)
    /\ pollfds' = IF "WAYLAND" \in pollfds.revents
                  THEN [pollfds EXCEPT !.ready = @ \ {"WAYLAND"},
                                       !.queued = TRUE, !.flush = "none",
                                       !.intent = FALSE]
                  ELSE [pollfds EXCEPT !.flush = "none", !.intent = FALSE]
    /\ frame' = NoFrame
    /\ released' = <<>>
    /\ UNCHANGED <<outputs, output, owned, panel_items, toplevels, widgets,
                   width, height, scale, run_display, buffers, current_buffer,
                   attached, pointer_x, now, pass, press>>

\* the step of the clock that reads the timer and draws nothing
loop_clock_no_render(Rolls, Fails) ==
    /\ pc = "clock"
    /\ pc' = "loop"
    /\ pollfds' = [pollfds EXCEPT !.ready = @ \ {"CLOCK"}]
    /\ frame' = NoFrame
    /\ released' = <<>>
    /\ UNCHANGED <<outputs, output, owned, panel_items, toplevels, widgets,
                   width, height, scale, run_display, buffers, current_buffer,
                   attached, pointer_x, now, pass, press>>

\* read(panel->pollfds[FD_CLOCK].fd, ...) and render_frame
loop_clock(Rolls, Fails) ==
    /\ pc = "clock"
    /\ pollfds' = [pollfds EXCEPT !.ready = @ \ {"CLOCK"}]
    /\ render_frame("clock", run_display, toplevels, width, height, scale,
                    Rolls, Fails)
    /\ pc' = render_next(frame'.result, run_display)
    /\ released' = <<>>
    /\ UNCHANGED <<outputs, output, owned, panel_items, toplevels, width,
                   height, scale, run_display, pointer_x, press>>

\* the wl_display_roundtrip of panel_run's render_frame returns: the cleanup
\* of render_frame, and the test of the loop
render_frame_return ==
    /\ pc = "render_roundtrip"
    /\ pc' = while_test(run_display)
    /\ frame' = NoFrame
    /\ released' = <<>>
    /\ UNCHANGED <<outputs, output, owned, pollfds, panel_items, toplevels,
                   widgets, width, height, scale, run_display, buffers,
                   current_buffer, attached, pointer_x, now, pass, press>>

\* destroy_buffer: the memory of the buffer is given back
destroy_buffer(buffer) == NoBuffer

\* the objects panel_destroy releases: all but the cursor surface of the
\* seat, which seat_destroy leaves alone
DestroyedObjects == Objects \ {"cursor_surface"}

\* whether panel_destroy releases an object its pointer refers to as st: the
\* pointers it keeps are tested against NULL only, the lists are emptied and
\* the descriptors set to -1
destroys(o, st) ==
    IF o \in KeptPointers THEN st \in {"live", "dangling"} ELSE st = "live"

\* the pointer to object o after panel_destroy
destroyed_as(o, st) ==
    IF ~destroys(o, st) THEN st
    ELSE IF o \in KeptPointers THEN "dangling" ELSE "null"

\* the releases of the objects names, in order
RECURSIVE object_releases(_, _)
object_releases(own, names) ==
    IF names = <<>> THEN <<>>
    ELSE (IF destroys(Head(names), own[Head(names)])
          THEN <<Release(Head(names), 0, own[Head(names)])>> ELSE <<>>)
         \o object_releases(own, Tail(names))

\* the loop of panel_destroy over panel->toplevels
RECURSIVE toplevels_destroy(_)
toplevels_destroy(tls) ==
    IF tls = <<>> THEN <<>>
    ELSE toplevel_destroy(Head(tls)) \o toplevels_destroy(Tail(tls))

\* the two calls of destroy_buffer
buffers_destroy(pool) ==
    (IF pool[1] # NoBuffer THEN <<Release("buffer", 1, "live")>> ELSE <<>>)
    \o (IF pool[2] # NoBuffer THEN <<Release("buffer", 2, "live")>> ELSE <<>>)

\* what panel_destroy releases, in its order
panel_destroy_releases(own, items, tls, ws, pool) ==
    object_releases(own, <<"font_description">>)
    \o (IF items # NULL THEN <<Release("panel_items", 0, "live")>> ELSE <<>>)
    \o object_releases(own, <<"layer_surface", "surface", "layer_shell",
                              "cursor_shape_manager", "seat">>)
    \o toplevels_destroy(tls)
    \o (IF ws # <<>> THEN <<Release("widgets", 0, "live")>> ELSE <<>>)
    \o object_releases(own, <<"toplevel_manager">>)
    \o buffers_destroy(pool)
    \o object_releases(own, <<"outputs", "compositor", "shm", "display",
                              "fd_timer", "fd_signal", "fd_clock">>)

\* panel_destroy. The release of an object that was released before is
\* undefined: ub is whether the process dies of it.
panel_destroy(ub) ==
    /\ run_display' = FALSE
    /\ panel_items' = NULL
    /\ toplevels' = <<>>
    /\ widgets' = widgets_free(widgets)
    /\ buffers' = [i \in 1..2 |-> destroy_buffer(buffers[i])]
    /\ owned' = [o \in Objects |->
                    IF o \in DestroyedObjects THEN destroyed_as(o, owned[o])
                    ELSE owned[o]]
    /\ released' = panel_destroy_releases(owned, panel_items, toplevels,
                                          widgets, buffers)
    /\ ub => \E i \in 1..Len(released') : released'[i].was = "dangling"
    /\ pollfds' = [pollfds EXCEPT !.armed = @ \cap {"WAYLAND"}]
    /\ frame' = NoFrame
    /\ UNCHANGED <<outputs, output, width, height, scale, current_buffer,
                   attached, pointer_x, now, pass, press>>

\* panel_run has returned to main, which calls panel_destroy: nothing is
\* dispatched or drawn in it
main_panel_destroy(ub) ==
    /\ pc = "returned"
    /\ pc' = IF ub THEN "crashed" ELSE "destroyed"
    /\ panel_destroy(ub)

\* the compositor has closed the layer surface: the handler calls
\* panel_destroy and returns into the dispatch of a display that has been
\* disconnected, which is undefined: ub is whether the process dies of it
layer_surface_closed(ub) ==
    /\ owned["layer_surface"] = "live"
    /\ pc' = IF ub THEN "crashed" ELSE pc
    /\ panel_destroy(FALSE)

\* hit_widget with the left end of the interval left out
RECURSIVE hit_widget_after_left(_, _, _)
hit_widget_after_left(ws, x, i) ==
    IF i > Len(ws) THEN 0
    ELSE IF x > ws[i].x /\ x < ws[i].x + ws[i].width THEN i
    ELSE hit_widget_after_left(ws, x, i + 1)

\* hit_widget with the right end of the interval included
RECURSIVE hit_widget_inclusive(_, _, _)
hit_widget_inclusive(ws, x, i) ==
    IF i > Len(ws) THEN 0
    ELSE IF x >= ws[i].x /\ x <= ws[i].x + ws[i].width THEN i
    ELSE hit_widget_inclusive(ws, x, i + 1)

\* the first widget of the list whose interval holds x, 0 when there is none
RECURSIVE hit_widget(_, _, _)
hit_widget(ws, x, i) ==
    IF i > Len(ws) THEN 0
    ELSE IF x >= ws[i].x /\ x < ws[i].x + ws[i].width THEN i
    ELSE hit_widget(ws, x, i + 1)

\* the cursor shape aside, wl_pointer_enter stores the pointer's position
wl_pointer_enter(x) ==
    /\ pointer_x' = x
    /\ frame' = NoFrame
    /\ released' = <<>>
    /\ UNCHANGED <<outputs, output, owned, pollfds, panel_items, toplevels,
                   widgets, width, height, scale, run_display, buffers,
                   current_buffer, attached, now, pc, pass, press>>

wl_pointer_motion(x) ==
    /\ pointer_x' = x
    /\ frame' = NoFrame
    /\ released' = <<>>
    /\ UNCHANGED <<outputs, output, owned, pollfds, panel_items, toplevels,
                   widgets, width, height, scale, run_display, buffers,
                   current_buffer, attached, now, pc, pass, press>>

\* wl_pointer_button without the test of the button state
button_scan_any_state(state, ws, x) ==
    LET i == hit_widget(ws, x, 1)
    IN  [state |-> state, hit |-> i,
         activated |-> IF i = 0 THEN 0 ELSE ws[i].toplevel]

\* What wl_pointer_button does with the widget list ws and the pointer at x.
\* hit: the widget the scan stopped at, 0 for none; activated: the toplevel
\* whose handle gets the activate request, 0 for no request
button_scan(state, ws, x) ==
    IF state # "pressed"
    THEN [state |-> state, hit |-> 0, activated |-> 0]
    ELSE LET i == hit_widget(ws, x, 1)
         IN  [state |-> state, hit |-> i,
              activated |-> IF i = 0 THEN 0 ELSE ws[i].toplevel]

\* widget->toplevel of widget i of ws points to an entry that was freed
dangling(ws, tls, i) ==
    /\ ws[i].toplevel # 0
    /\ \A j \in 1..Len(tls) : tls[j].handle # ws[i].toplevel

\* wl_pointer_button: the scan, and the activate request on the handle of the
\* widget it stops at. Reading the handle out of a freed entry is undefined:
\* the request may go out on whatever the memory holds, or the read may fault.
wl_pointer_button(state) ==
    /\ press' = button_scan(state, widgets, pointer_x)
    /\ \E fault \in BOOLEAN :
          /\ fault => /\ press'.hit # 0
                      /\ dangling(widgets, toplevels, press'.hit)
          /\ pc' = IF fault THEN "crashed" ELSE pc
    /\ frame' = NoFrame
    /\ released' = <<>>
    /\ UNCHANGED <<outputs, output, owned, pollfds, panel_items, toplevels,
                   widgets, width, height, scale, run_display, buffers,
                   current_buffer, attached, pointer_x, now, pass>>

\* render_to_cairo alone, as render_frame calls it
layout_pass ==
    \E roll \in 0..time_calls(panel_items),
       failAt \in 0..widget_calls(panel_items, toplevels) :
        \E r \in {render_to_cairo(panel_items, toplevels, width, widgets, now,
                                  roll, failAt)} :
            /\ roll # 0 => can_tick(now)
            /\ widgets' = r.widgets
            /\ pass' = [ran |-> TRUE, again |-> pass.ran, x |-> r.x,
                        spacer_width |-> r.spacer_width,
                        roll |-> roll, failAt |-> failAt]
            /\ now' = IF roll = 0 THEN now ELSE now + 1
            /\ frame' = NoFrame
            /\ released' = <<>>
            /\ UNCHANGED <<outputs, output, owned, pollfds, panel_items,
                           toplevels, width, height, scale, run_display,
                           buffers, current_buffer, attached, pointer_x, pc,
                           press>>

----------------------------------------------------------------------------
(* Inputs. *)

\* the panel_items strings of the layout specification
ItemStrings ==
    {<<"T", "S", "C">>, <<"T">>, <<"T", "C">>, <<"C", "C">>, <<"C", "T">>,
     <<"T", "S", "S", "C">>, <<"S", "C", "S">>,
     <<"T", "X", "S", "C">>, <<"C", "S", "T">>,
     <<"T", "T">>, <<>>}

Widths == {60, 800}

\* the title and the app_id of a window: neither, the app_id alone, both, and
\* a title too long for a button
Labels == {<<NULL, NULL>>, <<NULL, AppId>>, <<Editor, AppId>>, <<LongTitle, NULL>>}

\* the registries of n windows, in the order of their handles
RECURSIVE RegistriesOf(_, _)
RegistriesOf(n, labels) ==
    IF n = 0 THEN {<<>>}
    ELSE {Append(r, [handle |-> n, title |-> l[1], app_id |-> l[2],
                     active |-> FALSE]) :
             r \in RegistriesOf(n - 1, labels), l \in labels}

Registries == UNION {RegistriesOf(n, Labels) : n \in 0..MaxToplevels}

\* the windows of the input specification: without a label, and with a title
InputLabels == {<<NULL, NULL>>, <<Editor, AppId>>}

InputRegistries == UNION {RegistriesOf(n, InputLabels) : n \in 0..MaxToplevels}

\* armed: the descriptors with an fd other than -1; ready: those that are
\* readable; revents: those the last poll() reported; queued: whether events
\* read from the socket wait in the display's queue; flush: the result of the
\* last wl_display_flush; clock_timer: the setting of the clock's timer;
\* intent: whether a wl_display_prepare_read has succeeded that neither
\* wl_display_read_events nor wl_display_cancel_read has followed
NoTimer == [it_value |-> 0, it_interval |-> 0]

NoPoll ==
    [armed |-> {}, ready |-> {}, revents |-> {}, queued |-> FALSE,
     flush |-> "none", clock_timer |-> NoTimer, intent |-> FALSE]

\* the first expiry of a timer that rounds the second up to a minute
clock_it_value_ceil(t) == ((t + 59) \div 60) * 60

\* it_value of the clock's timer, set at second t
clock_it_value(t) == t - (t % 60) + 60

\* panel->pollfds as panel_setup leaves it at second t
panel_setup_pollfds(items, t) ==
    [NoPoll EXCEPT
        !.armed = armed_fds(items),
        !.clock_timer = IF "CLOCK" \in armed_fds(items)
                        THEN [it_value |-> clock_it_value(t),
                              it_interval |-> 60]
                        ELSE NoTimer]

\* the rest of panel_setup after its two roundtrips: the surfaces are made,
\* the registry is destroyed and the descriptors are set up
panel_setup_rest ==
    /\ pc = "registry"
    /\ pc' = "setup"
    /\ \E cursor_shape \in BOOLEAN :
          owned' = [owned_setup(panel_items, cursor_shape)
                       EXCEPT !["seat"] = owned["seat"],
                              !["cursor_surface"] =
                                  IF owned["seat"] = "live" /\ ~cursor_shape
                                  THEN "live" ELSE "none"]
    /\ pollfds' = panel_setup_pollfds(panel_items, now)
    /\ frame' = NoFrame
    /\ released' = <<>>
    /\ UNCHANGED <<outputs, output, panel_items, toplevels, widgets, width,
                   height, scale, run_display, buffers, current_buffer,
                   attached, pointer_x, now, pass, press>>

InitCommon ==
    /\ pollfds = NoPoll
    /\ outputs = <<[wl_name |-> 1, scale |-> 1]>>
    /\ output = 0
    /\ released = <<>>
    /\ widgets = <<>>
    /\ scale = 1
    /\ buffers = [i \in 1..2 |-> NoBuffer]
    /\ current_buffer = 0
    /\ attached = 0
    /\ pointer_x = 0
    /\ pass = NoPass
    /\ frame = NoFrame
    /\ press = NoPress

----------------------------------------------------------------------------
(* SpecLayout: the layout pass applied to every input. *)

InitLayout ==
    /\ InitCommon
    /\ panel_items \in ItemStrings
    /\ owned = owned_setup(panel_items, TRUE)
    /\ toplevels \in Registries
    /\ width \in Widths
    /\ height = 30
    /\ run_display = TRUE
    /\ now = 33059
    /\ pc = "loop"

NextLayout == layout_pass

SpecLayout == InitLayout /\ [][NextLayout]_vars

----------------------------------------------------------------------------
(* SpecInput: the pointer handlers on the widget lists of the layout pass. *)

InputItems == {<<"T", "S", "C">>, <<"C", "C">>, <<"T", "T">>}

PointerXs == {0, 8, 29, 30, 51, 52, 299}

InitInput ==
    /\ InitCommon
    /\ panel_items \in InputItems
    /\ owned = owned_setup(panel_items, TRUE)
    /\ toplevels \in InputRegistries
    /\ width = 300
    /\ height = 30
    /\ run_display = TRUE
    /\ now = 32759
    /\ pc = "loop"

NextInput ==
    \/ layout_pass
    \/ \E x \in PointerXs : wl_pointer_enter(x)
    \/ \E x \in PointerXs : wl_pointer_motion(x)
    \/ \E state \in {"pressed", "released"} : wl_pointer_button(state)

SpecInput == InitInput /\ [][NextInput]_vars

----------------------------------------------------------------------------
(* SpecPool: the panel from panel_setup on, without windows: the render     *)
(* passes that panel_run and the configure events start, and the           *)
(* compositor's releases of the buffers.                                   *)

SysItems == {<<"T", "S", "C">>}
Configures == {<<0, 0>>, <<300, 0>>, <<300, 30>>, <<800, 30>>}
PoolFails == {0, 1}

InitPool ==
    /\ InitCommon
    /\ panel_items \in SysItems
    /\ owned = owned_setup(panel_items, TRUE)
    /\ toplevels = <<>>
    /\ width = 0
    /\ height = 0
    /\ run_display = FALSE
    /\ now = 32759
    /\ pc = "setup"

NextPool ==
    \/ panel_run_start
    \/ panel_run_render({0}, PoolFails)
    \/ render_frame_return
    \/ \E c \in Configures : layer_surface_configure(c[1], c[2], {0}, PoolFails)
    \/ \E i \in 1..2 : buffer_release(i)

SpecPool == InitPool /\ [][NextPool]_vars

----------------------------------------------------------------------------
(* SpecOutput: the running panel on a compositor with up to MaxOutputs      *)
(* outputs: the scale events of the outputs, the surface entering an       *)
(* output, configure events and buffer releases.                           *)

MaxOutputs == 2
Factors == 1..2
OutputConfigures == {<<0, 0>>, <<300, 30>>}

InitOutput ==
    /\ pollfds = NoPoll
    /\ \E n \in 1..MaxOutputs :
          /\ outputs = [o \in 1..n |-> [wl_name |-> o, scale |-> 1]]
          /\ output \in 0..n
    /\ released = <<>>
    /\ widgets = <<>>
    /\ scale = 1
    /\ buffers = [i \in 1..2 |-> NoBuffer]
    /\ current_buffer = 0
    /\ attached = 0
    /\ pointer_x = 0
    /\ pass = NoPass
    /\ frame = NoFrame
    /\ press = NoPress
    /\ panel_items \in SysItems
    /\ owned = owned_setup(panel_items, TRUE)
    /\ toplevels = <<>>
    /\ width = 300
    /\ height = 30
    /\ run_display = TRUE
    /\ now = 32759
    /\ pc = "loop"

NextOutput ==
    \/ \E o \in 1..MaxOutputs, factor \in Factors :
          output_scale(o, factor, {0}, {0})
    \/ \E o \in 1..MaxOutputs : surface_enter(o, {0}, {0})
    \/ \E c \in OutputConfigures : layer_surface_configure(c[1], c[2], {0}, {0})
    \/ \E i \in 1..2 : buffer_release(i)

SpecOutput == InitOutput /\ [][NextOutput]_vars

----------------------------------------------------------------------------
(* SpecAlloc: the running panel while calloc may fail: for the entry of a   *)
(* new window, and for any one widget of a render pass.                    *)

AllocHandles == 1..MaxToplevels

InitAlloc ==
    /\ InitCommon
    /\ panel_items \in SysItems
    /\ owned = owned_setup(panel_items, TRUE)
    /\ toplevels = <<>>
    /\ width = 300
    /\ height = 30
    /\ run_display = TRUE
    /\ now = 32759
    /\ pc = "loop"

NextAlloc ==
    \/ \E h \in AllocHandles, ok \in BOOLEAN :
          handle_toplevel_manager_toplevel(h, ok)
    \/ \E i \in 1..MaxToplevels :
          handle_toplevel_done(i, {0}, 0..(MaxToplevels + 1))
    \/ \E i \in 1..2 : buffer_release(i)

SpecAlloc == InitAlloc /\ [][NextAlloc]_vars

----------------------------------------------------------------------------
(* SpecHit: the running panel with its windows, configure events with and   *)
(* without a height, and button presses.                                   *)

HitConfigures == {<<300, 30>>, <<300, 0>>}
HitXs == {8, 299}

InitHit ==
    /\ InitCommon
    /\ panel_items = <<"T">>
    /\ owned = owned_setup(panel_items, TRUE)
    /\ toplevels = <<>>
    /\ width = 0
    /\ height = 0
    /\ run_display = TRUE
    /\ now = 32759
    /\ pc = "loop"

NextHit ==
    \/ \E h \in Handles :
          /\ pc = "loop"
          /\ Len(toplevels) < MaxWindows
          /\ handle_toplevel_manager_toplevel(h, TRUE)
    \/ \E i \in 1..MaxWindows : pc = "loop" /\ handle_toplevel_done(i, {0}, {0})
    \/ \E i \in 1..MaxWindows : pc = "loop" /\ handle_toplevel_closed(i, {0}, {0})
    \/ \E c \in HitConfigures :
          pc = "loop" /\ layer_surface_configure(c[1], c[2], {0}, {0})
    \/ \E i \in 1..2 : pc = "loop" /\ buffer_release(i)
    \/ \E x \in HitXs : pc = "loop" /\ wl_pointer_motion(x)
    \/ pc = "loop" /\ wl_pointer_button("pressed")

SpecHit == InitHit /\ [][NextHit]_vars

----------------------------------------------------------------------------
(* SpecLive: the running panel with configure events and the compositor's  *)
(* releases. The compositor gives every busy buffer back in the end; no    *)
(* event is bound to arrive.                                               *)

LiveConfigures == {<<300, 30>>, <<800, 30>>, <<800, 60>>}

InitLive ==
    /\ InitCommon
    /\ panel_items \in SysItems
    /\ owned = owned_setup(panel_items, TRUE)
    /\ toplevels = <<>>
    /\ width = 0
    /\ height = 0
    /\ run_display = TRUE
    /\ now = 32759
    /\ pc = "loop"

release_some == \E i \in 1..2 : buffer_release(i)

NextLive ==
    \/ \E c \in LiveConfigures : layer_surface_configure(c[1], c[2], {0}, {0})
    \/ release_some

SpecLive == InitLive /\ [][NextLive]_vars /\ WF_vars(release_some)

----------------------------------------------------------------------------
(* SpecSetup: the two roundtrips of panel_setup, in which the registry      *)
(* listener is attached: the globals appear and disappear, the outputs     *)
(* report their name and scale.                                            *)

OutputNames == 1..MaxOutputs
SeatName == MaxOutputs + 1

\* the panel before it has bound any global
owned_start ==
    [o \in Objects |->
        IF o \in {"font_description", "display"} THEN "live" ELSE "none"]

\* the globals the compositor has announced and the panel has bound
announced(name) ==
    \/ name = SeatName /\ owned["seat"] = "live"
    \/ \E o \in 1..Len(outputs) : outputs[o].wl_name = name

InitSetup ==
    /\ pollfds = NoPoll
    /\ outputs = <<>>
    /\ output = 0
    /\ released = <<>>
    /\ widgets = <<>>
    /\ scale = 1
    /\ buffers = [i \in 1..2 |-> NoBuffer]
    /\ current_buffer = 0
    /\ attached = 0
    /\ pointer_x = 0
    /\ pass = NoPass
    /\ frame = NoFrame
    /\ press = NoPress
    /\ panel_items \in SysItems
    /\ owned = owned_start
    /\ toplevels = <<>>
    /\ width = 0
    /\ height = 0
    /\ run_display = FALSE
    /\ now = 32759
    /\ pc = "registry"

NextSetup ==
    \/ \E name \in OutputNames, ok \in BOOLEAN : handle_global_output(name, ok)
    \/ handle_global_seat
    \/ \E o \in 1..MaxOutputs, name \in OutputNames : output_name(o, name)
    \/ \E o \in 1..MaxOutputs, factor \in Factors :
          pc = "registry" /\ output_scale(o, factor, {0}, {0})
    \/ \E name \in OutputNames \cup {SeatName}, fault, same \in BOOLEAN :
          /\ announced(name)
          /\ handle_global_remove(name, SeatName, fault, same)
    \/ panel_setup_rest
    \/ panel_run_start

SpecSetup == InitSetup /\ [][NextSetup]_vars

----------------------------------------------------------------------------
(* SpecLoop: panel_run from its start, with the events of the layer         *)
(* surface and of the buffers.                                             *)

LoopItems == {<<"T", "S", "C">>, <<"T">>}

FlushResults == {"ok", "EAGAIN", "EPIPE"}

InitLoop ==
    /\ outputs = <<[wl_name |-> 1, scale |-> 1]>>
    /\ output = 0
    /\ released = <<>>
    /\ widgets = <<>>
    /\ scale = 1
    /\ buffers = [i \in 1..2 |-> NoBuffer]
    /\ current_buffer = 0
    /\ attached = 0
    /\ pointer_x = 0
    /\ pass = NoPass
    /\ frame = NoFrame
    /\ press = NoPress
    /\ panel_items \in LoopItems
    /\ \E cursor_shape \in BOOLEAN :
           owned = owned_setup(panel_items, cursor_shape)
    /\ pollfds = panel_setup_pollfds(panel_items, 32759)
    /\ toplevels = <<>>
    /\ width = 0
    /\ height = 0
    /\ run_display = FALSE
    /\ now = 32759
    /\ pc = "setup"

\* the display dispatches events during the roundtrip of panel_run and, at
\* the top of the loop, while its queue holds events
dispatching ==
    /\ owned["display"] = "live"
    /\ \/ pc \in {"roundtrip", "render_roundtrip"}
       \/ pc = "loop" /\ pollfds.queued

NextLoop ==
    \/ panel_run_start
    \/ panel_run_render({0}, {0})
    \/ render_frame_return
    \/ dispatching /\ layer_surface_configure(300, 30, {0}, {0})
    \/ \E i \in 1..2 : dispatching /\ buffer_release(i)
    \/ \E ub \in BOOLEAN : dispatching /\ layer_surface_closed(ub)
    \/ \E result \in FlushResults \cup {"SIGSEGV"} : loop_flush(result)
    \/ loop_poll
    \/ loop_read
    \/ loop_clock({0}, {0})
    \/ wayland_readable
    \/ signal_arrives
    \/ clock_expires
    \/ \E ub \in BOOLEAN : main_panel_destroy(ub)

SpecLoop == InitLoop /\ [][NextLoop]_vars

----------------------------------------------------------------------------
(* SpecTimer: the clock's timer from panel_setup on, the panel waiting in    *)
(* poll().                                                                 *)

\* the seconds of the minute 09:05, at which panel_setup may run
SetupSeconds == {32700 + i : i \in 0..59}

TimerItems == {<<"T", "S", "C">>, <<"T">>, <<"C", "C">>, <<"S">>}

InitTimer ==
    /\ outputs = <<[wl_name |-> 1, scale |-> 1]>>
    /\ output = 0
    /\ released = <<>>
    /\ widgets = <<>>
    /\ scale = 1
    /\ buffers = [i \in 1..2 |-> NoBuffer]
    /\ current_buffer = 0
    /\ attached = 0
    /\ pointer_x = 0
    /\ pass = NoPass
    /\ frame = NoFrame
    /\ press = NoPress
    /\ panel_items \in TimerItems
    /\ owned = owned_setup(panel_items, TRUE)
    /\ now \in SetupSeconds
    /\ pollfds = panel_setup_pollfds(panel_items, now)
    /\ toplevels = <<>>
    /\ width = 300
    /\ height = 30
    /\ run_display = TRUE
    /\ pc = "poll"

NextTimer == clock_expires

SpecTimer == InitTimer /\ [][NextTimer]_vars

----------------------------------------------------------------------------
(* SpecClose: the windows of a running panel are closed, and the panel is    *)
(* ended by a signal.                                                      *)

InitClose ==
    /\ outputs = <<[wl_name |-> 1, scale |-> 1]>>
    /\ output = 0
    /\ released = <<>>
    /\ widgets = <<>>
    /\ scale = 1
    /\ buffers = [i \in 1..2 |-> NoBuffer]
    /\ current_buffer = 0
    /\ attached = 0
    /\ pointer_x = 0
    /\ pass = NoPass
    /\ frame = NoFrame
    /\ press = NoPress
    /\ panel_items = <<"T">>
    /\ owned = owned_setup(panel_items, TRUE)
    /\ pollfds = panel_setup_pollfds(panel_items, 32759)
    /\ toplevels \in InputRegistries
    /\ width = 300
    /\ height = 30
    /\ run_display = TRUE
    /\ now = 32759
    /\ pc = "poll"

NextClose ==
    \/ wayland_readable
    \/ signal_arrives
    \/ loop_poll
    \/ loop_read
    \/ loop_flush("ok")
    \/ \E i \in 1..MaxToplevels :
          dispatching /\ handle_toplevel_done(i, {0}, {0})
    \/ \E i \in 1..MaxToplevels :
          dispatching /\ handle_toplevel_closed(i, {0}, {0})
    \/ \E i \in 1..2 : dispatching /\ buffer_release(i)
    \/ main_panel_destroy(FALSE)

SpecClose == InitClose /\ [][NextClose]_vars

----------------------------------------------------------------------------
(* SpecRegistry: the handlers of the windows on a configured panel with the *)
(* taskbar alone.                                                          *)

\* the state arrays the compositor sends
StateArrays == {<<>>, <<"maximized", "activated">>}

\* The handles the compositor creates, numbered in the order of their
\* creation: a new handle is none of the live ones and younger than all.
RegistryHandles == 1..MaxRegistry

fresh_handle(h) == \A i \in 1..Len(toplevels) : toplevels[i].handle < h

InitRegistry ==
    /\ InitCommon
    /\ panel_items = <<"T">>
    /\ owned = owned_setup(panel_items, TRUE)
    /\ toplevels = <<>>
    /\ width = 300
    /\ height = 30
    /\ run_display = TRUE
    /\ now = 32759
    /\ pc = "loop"

NextRegistry ==
    \/ \E h \in RegistryHandles :
          fresh_handle(h) /\ handle_toplevel_manager_toplevel(h, TRUE)
    \/ \E i \in 1..MaxRegistry : handle_toplevel_title(i, Editor, TRUE)
    \/ \E i \in 1..MaxRegistry, state \in StateArrays :
          handle_toplevel_state(i, state)
    \/ \E i \in 1..MaxRegistry : handle_toplevel_done(i, {0}, {0})
    \/ \E i \in 1..MaxRegistry : handle_toplevel_closed(i, {0}, {0})

SpecRegistry == InitRegistry /\ [][NextRegistry]_vars

----------------------------------------------------------------------------
(* Spec: the running panel and its windows. It starts in the loop of        *)
(* panel_run, before the first configure event: panel_run's own            *)
(* render_frame has returned at once, the size being 0.                    *)

Init ==
    /\ InitCommon
    /\ panel_items \in SysItems
    /\ owned = owned_setup(panel_items, TRUE)
    /\ toplevels = <<>>
    /\ width = 0
    /\ height = 0
    /\ run_display = TRUE
    /\ now = 32759
    /\ pc = "loop"

Next ==
    \/ \E h \in Handles, ok \in BOOLEAN :
          Len(toplevels) < MaxWindows /\ handle_toplevel_manager_toplevel(h, ok)
    \/ \E i \in 1..MaxWindows, ok \in BOOLEAN : handle_toplevel_title(i, Editor, ok)
    \/ \E i \in 1..MaxWindows, ok \in BOOLEAN : handle_toplevel_app_id(i, AppId, ok)
    \/ \E i \in 1..MaxWindows, state \in StateArrays :
          handle_toplevel_state(i, state)
    \/ \E i \in 1..MaxWindows : handle_toplevel_done(i, {0}, {0})
    \/ \E i \in 1..MaxWindows : handle_toplevel_closed(i, {0}, {0})
    \/ layer_surface_configure(800, 30, {0}, {0})
    \/ \E i \in 1..2 : buffer_release(i)

Spec == Init /\ [][Next]_vars

----------------------------------------------------------------------------
(* The claims. *)

\* C1: get_next_buffer never returns a buffer whose busy flag is set (a frame
\* is submitted only in a buffer that was free before the call), and a free
\* buffer is eligible: the call returns NULL only when no buffer is free or
\* the allocation of the buffer's memory has failed.
C1_AcquireNeverBusy ==
    [][/\ frame'.result = "submitted" =>
            /\ current_buffer' \in free_buffers(buffers)
            /\ buffers'[current_buffer'].busy
       /\ frame'.result = "dropped" =>
            \/ free_buffers(buffers) = {}
            \/ frame'.alloc = "failed"]_vars

\* a frame is submitted in a buffer that had been submitted before and that
\* the compositor has released since: it still has its memory
C1_Witness ==
    /\ frame.result = "submitted"
    /\ frame.alloc = "none"
    /\ current_buffer # 0

\* C2: when render_frame runs while both buffers are busy, the frame is
\* dropped: get_next_buffer returns NULL, no buffer is written or attached to
\* the surface, and the pool is as it was.
C2_FrameDropped ==
    [][(free_buffers(buffers) = {} /\ frame'.result \notin {"none", "skipped"}) =>
            /\ frame'.result = "dropped"
            /\ current_buffer' = 0
            /\ buffers' = buffers
            /\ attached' = attached]_vars

\* a frame dropped with both buffers busy
C2_Witness ==
    /\ frame.result = "dropped"
    /\ free_buffers(buffers) = {}
    /\ attached # 0

CountOf(items, c) ==
    IF items = NULL THEN 0
    ELSE Cardinality({i \in 1..Len(items) : items[i] = c})

IsButton(w) == w.toplevel # 0

\* the buttons of the widget list ws are those of the registry tls, in its
\* order, once for every T of items
Reflects(ws, tls, items) ==
    LET b == SelectSeq(ws, IsButton)
        n == Len(tls)
    IN  /\ Len(b) = CountOf(items, "T") * n
        /\ \A j \in 1..Len(b) :
              /\ b[j].toplevel = tls[((j - 1) % n) + 1].handle
              /\ b[j].width = btn_width(tls[((j - 1) % n) + 1])

\* C3 as stated: every step that changes the registry (window appeared, title,
\* app-id, state, closed) runs a render pass before the next event is handled.
C3_EveryMutationRenders ==
    [][toplevels' # toplevels => frame'.result # "none"]_vars

\* C3 as amended: the removal of a window calls render_frame in the same
\* handler; the other changes of the registry call no render pass and leave
\* the widget list as it was; and a render pass that handle_toplevel_done or
\* handle_toplevel_closed starts, unless render_frame returns at once, leaves
\* a widget list with the buttons of the registry as it is then.
C3_ClosedAndDoneRender ==
    [][/\ Len(toplevels') < Len(toplevels) =>
            /\ frame'.by = "closed"
            /\ (width # 0 /\ height # 0 /\ run_display) =>
                  frame'.result \in {"dropped", "submitted"}
       /\ (toplevels' # toplevels /\ Len(toplevels') >= Len(toplevels)) =>
            /\ frame'.result = "none"
            /\ widgets' = widgets
       /\ (frame'.by \in {"done", "closed"}
           /\ frame'.result \in {"dropped", "submitted"}) =>
            Reflects(widgets', toplevels', panel_items)]_vars

\* the last window has been closed and the frame without its button submitted
C3_Witness ==
    /\ frame.by = "closed"
    /\ frame.result = "submitted"
    /\ toplevels = <<>>
    /\ Len(widgets) = 1

\* the widgets of ws whose interval [x, x + width) holds x
hit_matches(ws, x) ==
    {i \in 1..Len(ws) : x >= ws[i].x /\ x < ws[i].x + ws[i].width}

\* C4: for every x in [0, panel width) at most one widget of the widget list
\* holds x in its interval [x, x + width), the scan of wl_pointer_button stops
\* at exactly that widget, and at none when no interval holds x; a press
\* records the widget the scan finds at the pointer's x.
C4_HitExclusive ==
    /\ [](\A x \in 0..(width - 1) :
            /\ Cardinality(hit_matches(widgets, x)) <= 1
            /\ hit_matches(widgets, x) # {} =>
                  hit_matches(widgets, x) = {hit_widget(widgets, x, 1)}
            /\ hit_matches(widgets, x) = {} => hit_widget(widgets, x, 1) = 0)
    /\ [][(press' # press /\ press'.state = "pressed") =>
            /\ hit_matches(widgets, pointer_x) \subseteq {press'.hit}
            /\ press'.hit = 0 => hit_matches(widgets, pointer_x) = {}
            /\ press'.hit # 0 =>
                  press'.activated = widgets[press'.hit].toplevel]_vars

\* a press on the left edge of the second of two adjacent widgets has hit the
\* second
C4_Witness ==
    /\ press.state = "pressed"
    /\ press.hit = 2
    /\ Len(widgets) >= 2
    /\ widgets[1].x + widgets[1].width = widgets[2].x
    /\ pointer_x = widgets[2].x

\* C5: after a render pass the widget list is in non-decreasing x and no
\* widget reaches into the next one.
C5_Ordered ==
    pass.ran =>
        \A i \in 1..(Len(widgets) - 1) :
            /\ widgets[i].x <= widgets[i + 1].x
            /\ widgets[i].x + widgets[i].width <= widgets[i + 1].x

\* a pass that left two buttons and a clock
C5_Witness ==
    /\ pass.ran
    /\ Len(widgets) = 3
    /\ widgets[1].toplevel # 0
    /\ widgets[2].toplevel # 0
    /\ widgets[3].toplevel = 0

\* the time at the start of the last layout pass
pass_start == IF pass.roll = 0 THEN now ELSE now - 1

\* the premises of C6: "TSC", one window, room for taskbar and clock, and a
\* pass in which no allocation failed and the clock did not tick
C6_Case ==
    /\ pass.ran /\ pass.failAt = 0 /\ pass.roll = 0
    /\ panel_items = <<"T", "S", "C">>
    /\ Len(toplevels) = 1
    /\ width >= taskbar_natural_width(toplevels) + clock_natural_width(now)

\* C6: with "TSC", one window and a panel wide enough, the pass leaves the
\* window's button at x = 8, the spacer takes all that taskbar and clock leave,
\* and the clock ends the panel: its widget reaches the right edge and its
\* text ends at panel width - padding.
C6_TSC ==
    C6_Case =>
        /\ Len(widgets) = 2
        /\ widgets[1].x = BUTTON_PADDING
        /\ widgets[1].toplevel = toplevels[1].handle
        /\ widgets[1].width = btn_width(toplevels[1])
        /\ widgets[2].toplevel = 0
        /\ widgets[2].x = widgets[1].x + widgets[1].width + BUTTON_PADDING
                          + pass.spacer_width
        /\ widgets[2].x + widgets[2].width = width
        /\ clock_text_x(widgets[2].x) + get_text_size(ClockText(now))
              = width - BUTTON_PADDING
        /\ pass.x = width

\* the scenario of the specification: the window "Editor" on a panel of 800
C6_Witness ==
    /\ C6_Case
    /\ toplevels[1].title = Editor
    /\ width = 800
    /\ widgets[1].x = 8
    /\ widgets[2].x + widgets[2].width = 800

\* the number of widget_add calls of a pass that do not fail
added(n) == IF pass.failAt = 0 THEN n ELSE n - 1

\* C7 as stated: the pass leaves one widget for every button, clock and
\* spacer it lays out.
C7_WithSpacers ==
    (pass.ran /\ pass.failAt = 0) =>
        Len(widgets) = CountOf(panel_items, "T") * Len(toplevels)
                       + CountOf(panel_items, "C") + CountOf(panel_items, "S")

\* C7 as amended: the pass discards the previous list and appends one widget
\* for every window for each T and one for each C, except the one whose
\* allocation fails, and none for an S; the list holds these and no others.
C7_ButtonsAndClocks ==
    pass.ran =>
        /\ Len(widgets) = added(CountOf(panel_items, "T") * Len(toplevels)
                                + CountOf(panel_items, "C"))
        /\ Len(SelectSeq(widgets, IsButton)) + 1
              >= CountOf(panel_items, "T") * Len(toplevels)
        /\ Len(SelectSeq(widgets, IsButton))
              <= CountOf(panel_items, "T") * Len(toplevels)
        /\ pass.failAt = 0 => Reflects(widgets, toplevels, panel_items)
        /\ \A i \in 1..Len(widgets) :
              \/ /\ widgets[i].toplevel = 0
                 /\ widgets[i].width \in {clock_natural_width(pass_start),
                                          clock_natural_width(now)}
              \/ \E j \in 1..Len(toplevels) :
                    /\ widgets[i].toplevel = toplevels[j].handle
                    /\ widgets[i].width = btn_width(toplevels[j])

\* a pass over "TSC" with one window left a button and a clock, no more
C7_Witness ==
    /\ pass.ran /\ pass.failAt = 0
    /\ panel_items = <<"T", "S", "C">>
    /\ Len(toplevels) = 1
    /\ Len(widgets) = 2

\* the sum of the clock widths of the calls first..last of time() of the pass
clock_widths(first, last) ==
    LET before == Cardinality({k \in first..last :
                                  time(pass_start, pass.roll, k) = pass_start})
    IN  before * clock_natural_width(pass_start)
        + ((last - first + 1) - before) * clock_natural_width(pass_start + 1)

\* the widths and the padding of the widgets of the list
widgets_extent ==
    LET RECURSIVE sum(_)
        sum(i) == IF i > Len(widgets) THEN 0 ELSE widgets[i].width + sum(i + 1)
    IN  sum(1) + BUTTON_PADDING * (Len(SelectSeq(widgets, IsButton))
                                   + CountOf(panel_items, "T"))

C9_EachSpacerFull ==
    (pass.ran /\ CountOf(panel_items, "S") > 1) =>
        /\ pass.x = CountOf(panel_items, "T") * taskbar_natural_width(toplevels)
                    + clock_widths(CountOf(panel_items, "C") + 1,
                                   2 * CountOf(panel_items, "C"))
                    + CountOf(panel_items, "S") * pass.spacer_width
        /\ pass.failAt = 0 =>
              pass.x = widgets_extent
                       + CountOf(panel_items, "S") * pass.spacer_width

\* "TSSC" on a wide panel: the clock lies two spacer widths behind the taskbar
C9_Witness ==
    /\ pass.ran /\ pass.failAt = 0
    /\ panel_items = <<"T", "S", "S", "C">>
    /\ pass.spacer_width > 0
    /\ Len(toplevels) = 1
    /\ widgets[2].x = taskbar_natural_width(toplevels) + 2 * pass.spacer_width

\* C10: without an S the cursor ends at the sum of taskbar_natural_width and
\* clock_natural_width over the items.
C10_NaturalIsConsumed ==
    (pass.ran /\ ~strchr(panel_items, "S")) =>
        pass.x = CountOf(panel_items, "T") * taskbar_natural_width(toplevels)
                 + clock_widths(1, CountOf(panel_items, "C"))

\* a pass over "TC" with two windows
C10_Witness ==
    /\ pass.ran
    /\ panel_items = <<"T", "C">>
    /\ Len(toplevels) = 2
    /\ pass.x > 0

\* C11: a layout pass that follows another one, with the registry, the panel
\* size, the scale and panel_items as they were, within the same minute of the
\* clock and without a failed widget allocation in either, leaves a widget list
\* equal to the one before it: same length, and the same x, width and window
\* at every position.
C11_Idempotent ==
    [][(/\ pass.ran /\ pass'.ran
        /\ pass.failAt = 0 /\ pass'.failAt = 0
        /\ toplevels' = toplevels /\ width' = width /\ height' = height
        /\ scale' = scale /\ panel_items' = panel_items
        /\ (pass_start \div 60) = (now' \div 60)) =>
            /\ Len(widgets') = Len(widgets)
            /\ \A i \in 1..Len(widgets) :
                  /\ widgets'[i].x = widgets[i].x
                  /\ widgets'[i].width = widgets[i].width
                  /\ widgets'[i].toplevel = widgets[i].toplevel]_vars

\* a second pass over two buttons and a clock
C11_Witness ==
    /\ pass.again
    /\ pass.failAt = 0 /\ pass.roll = 0
    /\ Len(widgets) = 3
    /\ widgets[3].toplevel = 0

\* the label the specification gives a window: "?" without title and app-id,
\* the app-id when there is no title, the title otherwise
fallback_label(toplevel) ==
    CASE toplevel.title = NULL /\ toplevel.app_id = NULL -> <<"?">>
      [] toplevel.title = NULL /\ toplevel.app_id # NULL -> toplevel.app_id
      [] OTHER -> toplevel.title

\* the width of a button with the label text
label_btn_width(text) ==
    IF get_text_size(text) + 2 * BUTTON_PADDING > BUTTON_MAX_WIDTH
    THEN BUTTON_MAX_WIDTH
    ELSE get_text_size(text) + 2 * BUTTON_PADDING

\* C12: render_taskbar and taskbar_natural_width both label a window with its
\* title, else its app-id, else "?": the buttons of a pass have the width of
\* that label, and the spacer of the pass is what the natural widths of those
\* labels leave.
C12_LabelFallback ==
    /\ \A i \in 1..Len(toplevels) :
          /\ toplevel_label(toplevels[i]) = fallback_label(toplevels[i])
          /\ natural_label(toplevels[i]) = fallback_label(toplevels[i])
    /\ (pass.ran /\ pass.failAt = 0) =>
          \A j \in 1..Len(SelectSeq(widgets, IsButton)) :
              \E i \in 1..Len(toplevels) :
                  /\ SelectSeq(widgets, IsButton)[j].toplevel = toplevels[i].handle
                  /\ SelectSeq(widgets, IsButton)[j].width
                        = label_btn_width(fallback_label(toplevels[i]))
    /\ (pass.ran /\ panel_items = <<"T", "S", "C">> /\ Len(toplevels) = 2) =>
          pass.spacer_width =
              Max(0, width - 3 * BUTTON_PADDING
                     - label_btn_width(fallback_label(toplevels[1]))
                     - label_btn_width(fallback_label(toplevels[2]))
                     - clock_widths(1, 1))

\* a pass over a window without title and app-id and one with an app-id only,
\* which has the buttons "?" and "sh"
C12_Witness ==
    /\ pass.ran /\ pass.failAt = 0
    /\ panel_items = <<"T", "S", "C">>
    /\ Len(toplevels) = 2
    /\ toplevels[1].title = NULL /\ toplevels[1].app_id = NULL
    /\ toplevels[2].title = NULL /\ toplevels[2].app_id = AppId
    /\ widgets[1].width = get_text_size(<<"?">>) + 2 * BUTTON_PADDING
    /\ widgets[2].width = get_text_size(AppId) + 2 * BUTTON_PADDING

\* the windows of the registry whose active flag a step changes
flag_changes ==
    {i \in 1..Len(toplevels) :
        /\ Len(toplevels') = Len(toplevels)
        /\ toplevels'[i].active # toplevels[i].active}

\* C13: handle_toplevel_state sets the active flag to whether the state array
\* holds "activated", whatever the flag was; the same array applied again
\* gives the same window; and a step that changes a flag is that handler on
\* one window, all other windows staying as they are.
C13_ActiveRecomputed ==
    /\ [](\A i \in 1..Len(toplevels), state \in StateArrays :
            /\ toplevel_state(toplevels[i], state).active
                  = (\E k \in 1..Len(state) : state[k] = "activated")
            /\ toplevel_state(toplevel_state(toplevels[i], state), state)
                  = toplevel_state(toplevels[i], state)
            /\ toplevel_state(toplevels[i], state)
                  = [toplevels[i] EXCEPT
                       !.active = toplevel_state(toplevels[i], state).active])
    /\ [][\A i \in flag_changes :
            /\ flag_changes = {i}
            /\ \E state \in StateArrays :
                  /\ toplevels'[i].active
                        = (\E k \in 1..Len(state) : state[k] = "activated")
                  /\ toplevels' = [toplevels EXCEPT
                                     ![i].active = toplevels'[i].active]]_vars

\* of two windows the second is active and the first is not
C13_Witness ==
    /\ Len(toplevels) = 2
    /\ ~toplevels[1].active
    /\ toplevels[2].active

\* the handles of the windows of tls, in its order
handles_of(tls) == [i \in 1..Len(tls) |-> tls[i].handle]

C15_PressActivates ==
    [][(press' # press /\ press'.state = "pressed") =>
          LET m == hit_matches(widgets, pointer_x)
          IN  /\ m = {} => press'.activated = 0
              /\ \A i \in m :
                    (\A j \in m : i <= j) =>
                        /\ press'.activated = widgets[i].toplevel
                        /\ IsButton(widgets[i]) <=> press'.activated # 0
              /\ press'.activated # 0 =>
                    \E k \in 1..Len(toplevels) :
                        toplevels[k].handle = press'.activated]_vars

\* a press on the button of the second window has activated that window
C15_Witness ==
    /\ press.state = "pressed"
    /\ press.hit = 2
    /\ press.activated = 2
    /\ Len(toplevels) = 2
    /\ widgets[2].x <= pointer_x
    /\ pointer_x < widgets[2].x + widgets[2].width

\* C16: a button event that is no press sends no activate request, and an
\* enter or motion event sends none either; all of them leave the widget list
\* and the registry as they are; enter and motion store the pointer's x, and
\* a press scans with the x stored last.
C16_OnlyPressActs ==
    [][/\ pointer_x' # pointer_x =>
            /\ press' = press
            /\ widgets' = widgets /\ toplevels' = toplevels
       /\ (press' # press /\ press'.state # "pressed") =>
            /\ press'.activated = 0 /\ press'.hit = 0
            /\ pointer_x' = pointer_x
            /\ widgets' = widgets /\ toplevels' = toplevels
       /\ (press' # press /\ press'.state = "pressed") =>
            /\ pointer_x' = pointer_x
            /\ widgets' = widgets /\ toplevels' = toplevels
            /\ press'.hit \in hit_matches(widgets, pointer_x) \cup {0}
            /\ press'.activated # 0 =>
                  press'.hit \in hit_matches(widgets, pointer_x)]_vars

\* the button was released with the pointer on the button of a window, and
\* no request was sent
C16_Witness ==
    /\ press.state = "released"
    /\ press.activated = 0
    /\ \E i \in hit_matches(widgets, pointer_x) : IsButton(widgets[i])

----------------------------------------------------------------------------
\* the loop of panel_run is running
Running == pc \in {"loop", "poll", "read", "clock"}

\* panel_run has left its loop
Terminating == pc \in {"returned", "destroyed"}

\* poll() has returned with the signal or the timer of close_timeout readable
termination_readable ==
    pc = "read" /\ pollfds.revents \cap {"TIMER", "SIGNAL"} # {}

\* C17: when poll() returns with the timer of close_timeout or the signal
\* readable the loop of panel_run is left, and once it is left the loop is
\* never entered again and no frame is submitted.
C17_TerminationIsFinal ==
    /\ [][termination_readable /\ pc' # pc => Terminating']_vars
    /\ [][Terminating => /\ pc' \in {"returned", "destroyed", "crashed"}
                         /\ frame'.result # "submitted"
                         /\ attached' = attached]_vars

\* the signal was readable together with the socket when poll() returned and
\* the loop has been left, a frame having been submitted before
C17_Witness ==
    /\ pc = "returned"
    /\ pollfds.revents = {"WAYLAND", "SIGNAL"}
    /\ attached # 0

\* a step in which the signal becomes readable
signal_received == "SIGNAL" \in pollfds'.ready \ pollfds.ready

\* a step that runs a render pass
renders == frame'.result \in {"submitted", "dropped"}

\* C18 as stated: the signal ends the loop at the top of the next iteration
\* only, the steps that remain in the iteration where poll() reported it,
\* a pending render for the tick of the clock among them, being run first,
\* and no render pass is interrupted.
C18_RemainingStepsRun ==
    /\ [][pc = "read" /\ "CLOCK" \in pollfds.revents /\ pc' # pc
              => pc' = "clock"]_vars
    /\ [][Running /\ Terminating' => pc = "loop"]_vars
    /\ [][renders => ~Terminating']_vars

\* C18, amended: the signal is noticed only when poll() reports it, and the
\* loop is then left at once, before the render for a tick of the clock that
\* poll() reported with it; the signal's arrival changes nothing but the
\* readiness of its descriptor, and a step that renders is never the one
\* that leaves the loop.
C18_CooperativeAtPoll ==
    /\ [][signal_received
              => UNCHANGED <<pc, widgets, buffers, attached, pass,
                             run_display>>]_vars
    /\ [][Running /\ Terminating' /\ pc # "loop" => termination_readable]_vars
    /\ [][termination_readable /\ pc' # pc
              => pc' = "returned" /\ ~renders]_vars
    /\ [][renders => ~Terminating']_vars

\* poll() has reported the signal and a tick of the clock together; the loop
\* is left, the tick is still to be read and its render has not run
C18_Witness ==
    /\ pc = "returned"
    /\ {"SIGNAL", "CLOCK"} \subseteq pollfds.revents
    /\ "CLOCK" \in pollfds.ready
    /\ frame.by = "none"

\* C19: a wl_display_flush that fails with an errno other than EAGAIN ends
\* the loop without a poll(); one that succeeds or fails with EAGAIN is
\* followed by the poll(), the panel still running.
C19_FlushFailure ==
    [][pc = "loop" /\ pollfds'.flush # pollfds.flush
            /\ owned["display"] = "live"
          => /\ pollfds'.flush \in FlushResults
             /\ pollfds'.flush \notin {"ok", "EAGAIN"}
                    => Terminating' /\ pollfds'.revents = pollfds.revents
             /\ pollfds'.flush \in {"ok", "EAGAIN"} /\ run_display
                    => pc' = "poll"]_vars

\* the flush has failed with EAGAIN and the loop waits in poll()
C19_Witness == pc = "poll" /\ pollfds.flush = "EAGAIN"

\* poll() has returned with the clock's timer readable and neither the signal
\* nor the timer of close_timeout
tick_readable ==
    /\ pc = "read"
    /\ "CLOCK" \in pollfds.revents
    /\ pollfds.revents \cap {"TIMER", "SIGNAL"} = {}

\* C20: when poll() returns with the clock's timer readable and no source of
\* termination, the iteration reads the timer and calls render_frame before
\* anything is dispatched, whether the socket was readable or not; the call
\* is a whole render pass when the panel has its size.
C20_TickRenders ==
    /\ [][tick_readable /\ pc' # pc => pc' = "clock"]_vars
    /\ [][pc = "clock" /\ pc' # pc
              => /\ pc' \in {"loop", "render_roundtrip"}
                 /\ "CLOCK" \notin pollfds'.ready
                 /\ frame'.by = "clock"
                 /\ width # 0 /\ height # 0
                        => pass'.ran /\ frame'.result \in {"submitted",
                                                           "dropped"}]_vars
    /\ [](pc = "clock" => "CLOCK" \in pollfds.revents)

\* the tick was the only thing poll() reported, and its render has submitted
\* a frame with the clock of the new minute
C20_Witness ==
    /\ pc = "render_roundtrip"
    /\ pollfds.revents = {"CLOCK"}
    /\ frame.by = "clock"
    /\ frame.result = "submitted"
    /\ now = 32760
    /\ Len(widgets) = 1
    /\ widgets[1].toplevel = 0
    /\ widgets[1].width = clock_natural_width(32760)

----------------------------------------------------------------------------
\* C21: the clock's timer is armed exactly when panel_items has a C; armed,
\* its next expiry is at a multiple of 60 seconds, later than the present
\* second, also at second 0 of a minute, and at most 60 seconds later; it
\* expires at that second and then every 60 seconds.
C21_NextMinute ==
    /\ []("CLOCK" \in pollfds.armed <=> strchr(panel_items, "C"))
    /\ []("CLOCK" \in pollfds.armed
            => /\ pollfds.clock_timer.it_value % 60 = 0
               /\ pollfds.clock_timer.it_value > now
               /\ pollfds.clock_timer.it_value <= now + 60
               /\ pollfds.clock_timer.it_value = now - (now % 60) + 60)
    /\ [][now' # now
            => /\ now' = pollfds.clock_timer.it_value
               /\ pollfds'.clock_timer.it_value = now' + 60
               /\ "CLOCK" \in pollfds'.ready]_vars

\* panel_setup has run at second 0 of a minute: the timer waits for the next
\* minute
C21_Witness ==
    /\ now = 32700
    /\ "CLOCK" \in pollfds.armed
    /\ pollfds.clock_timer.it_value = 32760
    /\ pollfds.ready = {}

----------------------------------------------------------------------------
\* the step of layer_surface_closed, dispatched in the loop
closed_while_running ==
    Running /\ owned["display"] = "live" /\ owned'["display"] # "live"

\* C22: when the closed event of the layer surface is dispatched in the
\* loop, the handler returns to the loop, the loop is not in poll() again,
\* and its next step is to leave panel_run.
C22_ClosedExits ==
    /\ [][closed_while_running => pc' = pc /\ ~run_display']_vars
    /\ [](owned["display"] # "live" => pc \notin {"poll", "read", "clock"})
    /\ [][Running /\ owned["display"] # "live" /\ pc' # pc
              => pc' = "returned"]_vars

\* the protocol objects, which live on the display connection
ProtocolObjects ==
    {"layer_surface", "surface", "layer_shell", "cursor_shape_manager",
     "seat", "cursor_surface", "toplevel_manager", "outputs", "compositor",
     "shm", "handle", "buffer"}

\* nothing the panel owns is left
all_released ==
    /\ \A o \in Objects : owned[o] # "live"
    /\ toplevels = <<>>
    /\ widgets = <<>>
    /\ \A i \in 1..2 : buffers[i] = NoBuffer

\* C23: when the process has ended, nothing the panel owns is left, and no
\* protocol object is released after the display has been disconnected.
C23_AllReleasedInOrder ==
    /\ [](pc \in {"destroyed", "crashed"} => all_released)
    /\ [][\A i \in 1..Len(released') :
              released'[i].object \in ProtocolObjects
                  => /\ owned["display"] = "live"
                     /\ \A j \in 1..(i - 1) :
                            released'[j].object # "display"]_vars

\* C24: while a render_frame is in progress no callback is dispatched and no
\* other render pass runs: the only step is the return of render_frame.
C24_NoNestedDispatch ==
    /\ [][pc = "render_roundtrip"
              => /\ pc' \in {"loop", "returned"}
                 /\ UNCHANGED <<widgets, buffers, width, height, owned,
                                attached, run_display>>]_vars
    /\ [][frame'.result \in {"submitted", "dropped"}
              => pc # "render_roundtrip"]_vars

\* C25: a read intent is begun only when none is outstanding, the step after
\* poll() resolves it, by reading when the socket was reported readable, and
\* none is outstanding when panel_run has returned.
C25_IntentResolved ==
    /\ [][pollfds'.intent /\ pollfds'.flush # pollfds.flush
              => ~pollfds.intent]_vars
    /\ [][pc = "read" /\ pc' # pc
              => /\ ~pollfds'.intent
                 /\ pollfds'.queued = ("WAYLAND" \in pollfds.revents)]_vars
    /\ [](pc \in {"returned", "destroyed"} => ~pollfds.intent)

\* the releases of object in rel, as the sequence of their ids
RECURSIVE ids_released(_, _)
ids_released(rel, object) ==
    IF rel = <<>> THEN <<>>
    ELSE (IF Head(rel).object = object THEN <<Head(rel).id>> ELSE <<>>)
         \o ids_released(Tail(rel), object)

\* in rel the handle of the window h is destroyed once, and the entry is
\* freed once, after it
handle_then_entry(rel, h) ==
    \E i, j \in 1..Len(rel) :
        /\ i < j
        /\ rel[i].object = "handle" /\ rel[i].id = h
        /\ rel[j].object = "toplevel" /\ rel[j].id = h
        /\ \A k \in 1..Len(rel) :
               rel[k].id = h /\ rel[k].object \in {"handle", "toplevel"}
                   => k \in {i, j}

\* C26: handle_toplevel_closed takes the closed window, and no other, out of
\* the registry, destroying its handle once and then freeing the entry; when
\* the panel ends, panel_destroy does the same with every window left.
C26_ClosedReleasesOne ==
    /\ [][frame'.by = "closed"
              => \E i \in 1..Len(toplevels) :
                    /\ toplevels' = remove_at(toplevels, i)
                    /\ handle_then_entry(released', toplevels[i].handle)
                    /\ ids_released(released', "handle")
                           = <<toplevels[i].handle>>
                    /\ ids_released(released', "toplevel")
                           = <<toplevels[i].handle>>]_vars
    /\ [][pc' = "destroyed" /\ pc # "destroyed"
              => /\ toplevels' = <<>>
                 /\ \A i \in 1..Len(toplevels) :
                        handle_then_entry(released', toplevels[i].handle)
                 /\ Len(ids_released(released', "handle")) = Len(toplevels)]_vars

\* the first of two windows has been closed; the second is still in the
\* registry and on the panel
C26_Witness ==
    /\ frame.by = "closed"
    /\ released = <<Release("handle", 1, "live"), Release("toplevel", 1, "live")>>
    /\ Len(toplevels) = 1
    /\ toplevels[1].handle = 2
    /\ Len(widgets) = 1

\* C27: a scale event for the output the panel is on sets the panel scale to
\* the factor and starts a render pass; a scale event for another output
\* changes the factor of that output only: the panel scale stays, and no
\* render pass is started.
scale_event(o) ==
    /\ o \in 1..Len(outputs)
    /\ outputs'[o].scale # outputs[o].scale

C27_ScaleOfActiveOutput ==
    [][/\ \A o \in 1..MaxOutputs : scale_event(o) =>
             /\ \A other \in (1..Len(outputs)) \ {o} :
                   outputs'[other] = outputs[other]
             /\ output' = output
             /\ o = output =>
                   /\ scale' = outputs'[o].scale
                   /\ frame'.by = "scale"
             /\ o # output =>
                   /\ scale' = scale
                   /\ frame' = NoFrame
                   /\ UNCHANGED <<widgets, pass, buffers, current_buffer,
                                  attached>>
       /\ frame'.by = "scale" =>
             /\ output # 0
             /\ scale' = outputs'[output].scale]_vars

\* a frame was submitted at the new scale of the active output while the
\* other output keeps its own factor
C27_Witness ==
    /\ Len(outputs) = 2
    /\ output = 1
    /\ outputs[1].scale = 2
    /\ outputs[2].scale = 1
    /\ scale = 2
    /\ frame.by = "scale"
    /\ frame.result = "submitted"
    /\ current_buffer # 0
    /\ buffers[current_buffer].width = 600

\* C28: a configure event stores the received width and height and starts a
\* render pass at that size; the pass draws (replaces the widget list, and
\* submits a frame in a buffer of the new size) only if the panel is running
\* and width and height are both non-zero, and otherwise leaves the widget
\* list and the buffer pool as they were.
drawable == run_display /\ width' # 0 /\ height' # 0

C28_ConfigureResizesAndRenders ==
    [][frame'.by = "configure" =>
          /\ <<width', height'>> \in Configures
          /\ frame'.result = "submitted" => drawable
          /\ widgets' # widgets => drawable
          /\ buffers' # buffers => drawable
          /\ drawable =>
                /\ frame'.result \in {"submitted", "dropped"}
                /\ pass'.ran
                /\ pass'.x <= width'
                /\ frame'.result = "submitted" =>
                      /\ buffers'[current_buffer'].width = width' * scale
                      /\ buffers'[current_buffer'].height = height' * scale
          /\ ~drawable =>
                /\ frame'.result = "skipped"
                /\ UNCHANGED <<widgets, buffers, current_buffer, attached>>]_vars

\* a configure event with a zero height after a frame was shown: the widget
\* list and the shown buffer are the earlier ones
C28_Witness ==
    /\ frame.by = "configure"
    /\ frame.result = "skipped"
    /\ width = 300
    /\ height = 0
    /\ widgets # <<>>
    /\ attached # 0
    /\ buffers[attached].height = 30

\* C29: a panel_items character other than T, C and S adds no widget and no
\* width in either loop of the layout pass: the widget list, the end of the
\* layout and the spacer width are those of the pass over the string without
\* that character.
known_code(c) == c \in {"T", "C", "S"}

C29_UnknownCodeSkipped ==
    pass.ran =>
        LET t == IF pass.roll = 0 THEN now ELSE now - 1
            r == render_to_cairo(SelectSeq(panel_items, known_code), toplevels,
                                 width, <<>>, t, pass.roll, pass.failAt)
        IN  /\ widgets = r.widgets
            /\ pass.x = r.x
            /\ pass.spacer_width = r.spacer_width

\* a pass over T X S C with a window: a button, the spacer and the clock at
\* the right edge
C29_Witness ==
    /\ pass.ran
    /\ panel_items = <<"T", "X", "S", "C">>
    /\ width = 800
    /\ Len(widgets) = 2
    /\ widgets[1].toplevel # 0
    /\ widgets[2].toplevel = 0
    /\ pass.spacer_width > 0
    /\ pass.x = 800

\* C30: a failed allocation is survived. When calloc fails for the entry of a
\* new window, the registry and the rest of the panel stay as they were. When
\* calloc fails in widget_add, the render pass goes on: the widget list is
\* the list of the same pass without the failure less the one widget, the
\* layout ends at the same x, and a pass in which no allocation fails, the
\* next one included, builds the whole list.
same_pass(failAt) ==
    render_to_cairo(panel_items, toplevels', width, <<>>, now, pass'.roll,
                    failAt)

C30_AllocationFailureSkips ==
    [][/\ (frame'.result = "none" /\ frame'.alloc = "failed") =>
             UNCHANGED <<toplevels, widgets, buffers, current_buffer,
                         attached, run_display, pc, owned>>
       /\ frame'.result \in {"submitted", "dropped"} =>
             \A r \in {same_pass(0)} :
                 /\ pass'.x = r.x
                 /\ pass'.spacer_width = r.spacer_width
                 /\ widgets' = IF pass'.failAt \in 1..Len(r.widgets)
                               THEN remove_at(r.widgets, pass'.failAt)
                               ELSE r.widgets]_vars

\* a frame was submitted by a pass in which calloc failed for the widget of
\* the first of two windows: the second button and the clock have theirs
C30_Witness ==
    /\ Len(toplevels) = 2
    /\ pass.failAt = 1
    /\ frame.result = "submitted"
    /\ Len(widgets) = 2
    /\ widgets[1].toplevel = toplevels[2].handle
    /\ widgets[2].toplevel = 0
    /\ widgets[2].x + widgets[2].width = width

\* the cursor x at which item k of panel_items starts, in a pass without a
\* failed allocation and without a tick of the clock: the natural widths of
\* the T and C items and the spacer width of the S items before it
RECURSIVE item_start(_)
item_start(k) ==
    IF k <= 1 THEN 0
    ELSE item_start(k - 1)
         + CASE panel_items[k - 1] = "T" -> taskbar_natural_width(toplevels)
             [] panel_items[k - 1] = "C" -> clock_natural_width(pass_start)
             [] panel_items[k - 1] = "S" -> pass.spacer_width
             [] OTHER -> 0

\* the number of widgets the items before item k leave in the list
widgets_before(k) ==
    Cardinality({j \in 1..(k - 1) : panel_items[j] = "T"}) * Len(toplevels)
    + Cardinality({j \in 1..(k - 1) : panel_items[j] = "C"})

RECURSIVE buttons_extent(_, _)
buttons_extent(base, n) ==
    IF n = 0 THEN 0
    ELSE buttons_extent(base, n - 1) + widgets[base + n].width + BUTTON_PADDING

\* C31: the i-th button of a T item that starts at start_x is
\* min(label width + 2*8, 200) wide and lies at start_x + 8 plus the widths of
\* the buttons before it and a gap of 8 after each of them: the first button
\* is one padding after start_x, and neighbours are 8 apart.
C31_ButtonGeometry ==
    (pass.ran /\ pass.failAt = 0 /\ pass.roll = 0) =>
        \A k \in 1..Len(panel_items) : panel_items[k] = "T" =>
            \A i \in 1..Len(toplevels) :
                LET base == widgets_before(k)
                    w == widgets[base + i]
                    label_width == get_text_size(toplevel_label(toplevels[i]))
                IN  /\ w.toplevel = toplevels[i].handle
                    /\ w.width = IF label_width + 2 * 8 < 200
                                 THEN label_width + 2 * 8 ELSE 200
                    /\ w.x = item_start(k) + 8 + buttons_extent(base, i - 1)
                    /\ i = 1 => w.x = item_start(k) + 8
                    /\ i > 1 => w.x = widgets[base + i - 1].x
                                      + widgets[base + i - 1].width + 8

\* the second taskbar of T T with two windows, the second with a title too
\* long for a button: four buttons, the last one clamped to 200
C31_Witness ==
    /\ pass.ran /\ pass.failAt = 0 /\ pass.roll = 0
    /\ panel_items = <<"T", "T">>
    /\ Len(toplevels) = 2
    /\ toplevels[1].title = Editor
    /\ toplevels[2].title = LongTitle
    /\ Len(widgets) = 4
    /\ widgets[4].width = 200
    /\ widgets[3].x > widgets[2].x + widgets[2].width + 8
    /\ widgets[4].x = widgets[3].x + widgets[3].width + 8

\* C32: while the panel runs and a press can be dispatched, every widget of
\* the list that references a window references an entry of the registry,
\* and no press reads a freed entry; also after a window was closed and the
\* render pass of the handler returned at once for want of a size.
C32_NoWidgetOutlivesWindow ==
    /\ pc # "crashed"
    /\ (pc = "loop" /\ run_display) =>
          \A i \in 1..Len(widgets) : ~dangling(widgets, toplevels, i)

\* C33 as stated: a render pass that is dropped because no buffer of the pool
\* is free leaves the widget list as it was for the last submitted frame.
C33_DroppedKeepsWidgets ==
    [][(frame'.result = "dropped" /\ free_buffers(buffers) = {}) =>
           widgets' = widgets]_vars

\* C33 as amended: the widget list is the one of the most recent render pass
\* that ran, whether its frame was submitted or dropped; a dropped pass
\* leaves the buffers and the attached frame as they were, so the list may
\* be ahead of the frame the compositor shows.
C33_WidgetsOfLastPass ==
    [][frame'.result \in {"submitted", "dropped"} =>
           \A r \in {render_to_cairo(panel_items, toplevels', width', <<>>,
                                      now, pass'.roll, pass'.failAt)} :
               /\ widgets' = r.widgets
               /\ frame'.result = "dropped" =>
                     /\ attached' = attached
                     /\ \A i \in 1..2 : buffers'[i].busy = buffers[i].busy]_vars

\* a configure to 300 was dropped with both buffers busy: the clock widget
\* ends at 300 while the attached frame is the one drawn for 800
C33_Witness ==
    /\ frame.by = "configure"
    /\ frame.result = "dropped"
    /\ frame.alloc = "none"
    /\ width = 300
    /\ attached # 0
    /\ buffers[attached].width = 800
    /\ Len(widgets) = 1
    /\ widgets[1].x + widgets[1].width = 300

\* C34: in every run each object the panel owns is released at most once:
\* nothing is released through a pointer whose object was released before,
\* also when layer_surface_closed has called panel_destroy and main calls it
\* again, and the process does not die of a second release.
C34_ReleasedOnce ==
    /\ [][\A i \in 1..Len(released') : released'[i].was = "live"]_vars
    /\ [][pc = "returned" => pc' # "crashed"]_vars

\* the step of panel_run that calls wl_display_prepare_read and
\* wl_display_flush
flush_step == pc = "loop" /\ pc' # pc /\ owned' = owned

\* C35: once layer_surface_closed has disconnected the display, panel_run
\* calls nothing on it any more: its only step is to leave the loop, without
\* a prepare_read or flush on the released display.
C35_NoUseAfterDisconnect ==
    [][flush_step => owned["display"] = "live"]_vars

\* the frame the compositor has is one of the panel as it is: of its size and
\* scale
shown_is_current ==
    /\ attached # 0
    /\ buffers[attached].width = width * scale
    /\ buffers[attached].height = height * scale

\* the last render pass was dropped, a buffer has been released since, and no
\* event has started another pass
dropped_and_released ==
    /\ attached # 0
    /\ ~shown_is_current
    /\ free_buffers(buffers) # {}
    /\ frame.by = "none"

natural_sum ==
    CountOf(panel_items, "T") * taskbar_natural_width(toplevels)
    + CountOf(panel_items, "C") * clock_natural_width(pass_start)

\* C37: with exactly one S in panel_items the cursor of a render pass ends at
\* max(panel width, N), N being the sum of the natural widths of the T and C
\* items; when N <= panel width the items after the spacer end at the right
\* edge of the panel and no widget reaches beyond it. (A pass during which
\* the clock does not tick.)
C37_OneSpacerFills ==
    (pass.ran /\ pass.roll = 0 /\ CountOf(panel_items, "S") = 1) =>
        /\ pass.x = Max(width, natural_sum)
        /\ natural_sum <= width =>
              /\ \A i \in 1..Len(widgets) :
                    widgets[i].x + widgets[i].width <= width
              /\ (panel_items[Len(panel_items)] = "C" /\ pass.failAt = 0) =>
                    widgets[Len(widgets)].x + widgets[Len(widgets)].width
                        = width
              /\ (panel_items[Len(panel_items)] = "T" /\ pass.failAt = 0
                  /\ toplevels # <<>>) =>
                    widgets[Len(widgets)].x + widgets[Len(widgets)].width
                        + BUTTON_PADDING = width

\* C S T on a wide panel with two windows: the clock at the left, the
\* taskbar pushed to the right edge
C37_Witness ==
    /\ pass.ran /\ pass.roll = 0 /\ pass.failAt = 0
    /\ panel_items = <<"C", "S", "T">>
    /\ width = 800
    /\ Len(toplevels) = 2
    /\ Len(widgets) = 3
    /\ widgets[1].x = 0
    /\ widgets[2].x = widgets[1].width + pass.spacer_width + BUTTON_PADDING
    /\ widgets[3].x + widgets[3].width + BUTTON_PADDING = 800
    /\ pass.x = 800

\* C38: a global-removed event is never handled while panel->output is
\* unset, and the process does not die in the handler.
C38_RemoveReadsSelectedOutput ==
    [][frame'.by = "global_remove" => output # 0 /\ pc' # "crashed"]_vars

----------------------------------------------------------------------------
(* The taskbar plugin (plugin-taskbar.c): a registry entry holds its widget  *)
(* as its first member, base, and the widget list links the entries' bases. *)
(* A widget of the list is [x, width, toplevel, type, impl]: toplevel is    *)
(* the handle of the entry the widget is the base of, 0 for a widget that   *)
(* is part of no entry.                                                     *)

\* enum widget_type
WIDGET_TOPLEVEL == 0
WIDGET_CLOCK == 1

\* the widget_impl of the taskbar's widgets
toplevel_widget_impl ==
    [on_left_button_press |-> "toplevel_on_left_button_press"]

\* the widget_impl of the clock's widget: it takes no press
clock_widget_impl == [on_left_button_press |-> "none"]

\* the assertion of toplevel_from_widget and its cast
toplevel_from_widget(widget) ==
    [assertion |-> widget.type = WIDGET_TOPLEVEL, toplevel |-> widget.toplevel]

\* toplevel_on_left_button_press: the activate request on the handle of the
\* entry the widget is the base of; a failed assertion aborts the process
toplevel_on_left_button_press(widget) ==
    LET t == toplevel_from_widget(widget)
    IN  [aborted |-> ~t.assertion,
         activated |-> IF t.assertion THEN t.toplevel ELSE 0]

\* the entry handle_toplevel_manager_toplevel makes: calloc, handle, and the
\* type and impl of its base
toplevel_new(h) ==
    [handle |-> h, title |-> NULL, app_id |-> NULL, active |-> FALSE,
     base |-> [type |-> WIDGET_TOPLEVEL, impl |-> toplevel_widget_impl]]

\* the lists of the panel that link the entry of handle h
linked(ws, tls, h) ==
    (IF \E i \in 1..Len(ws) : ws[i].toplevel = h THEN {"widgets"} ELSE {})
    \cup (IF \E i \in 1..Len(tls) : tls[i].handle = h THEN {"toplevels"} ELSE {})

\* the free of an entry, with the lists that linked it when it was freed
Free(h, lists) ==
    [object |-> "toplevel", id |-> h, was |-> "live", linked |-> lists]

\* wl_list_remove(&toplevel->base.link): a base that is in no list is linked
\* to itself since wl_list_init, and the removal changes no list
base_remove(ws, h) == SelectSeq(ws, LAMBDA w : w.toplevel # h)

\* toplevel_destroy that leaves the base in the widget list
plugin_toplevel_destroy_keep_base(ws, tls, i) ==
    LET ws1 == ws
        tls1 == remove_at(tls, i)
    IN  [widgets |-> ws1, toplevels |-> tls1,
         released |-> <<Release("handle", tls[i].handle, "live"),
                        Free(tls[i].handle, linked(ws1, tls1, tls[i].handle))>>]

\* toplevel_destroy of entry i: the base leaves the widget list, the handle
\* is destroyed, the entry leaves the registry, the entry is freed
plugin_toplevel_destroy(ws, tls, i) ==
    LET ws1 == base_remove(ws, tls[i].handle)
        tls1 == remove_at(tls, i)
    IN  [widgets |-> ws1, toplevels |-> tls1,
         released |-> <<Release("handle", tls[i].handle, "live"),
                        Free(tls[i].handle, linked(ws1, tls1, tls[i].handle))>>]

\* the widget list of a pass: the base of the entry a button is for, and the
\* clock's widget
RECURSIVE entry_of(_, _, _)
entry_of(tls, h, i) ==
    IF i > Len(tls) THEN 0
    ELSE IF tls[i].handle = h THEN i
    ELSE entry_of(tls, h, i + 1)

widget_bases(ws, tls) ==
    [k \in 1..Len(ws) |->
        IF ws[k].toplevel # 0
        THEN [x |-> ws[k].x, width |-> ws[k].width, toplevel |-> ws[k].toplevel,
              type |-> tls[entry_of(tls, ws[k].toplevel, 1)].base.type,
              impl |-> tls[entry_of(tls, ws[k].toplevel, 1)].base.impl]
        ELSE [x |-> ws[k].x, width |-> ws[k].width, toplevel |-> 0,
              type |-> WIDGET_CLOCK, impl |-> clock_widget_impl]]

\* render_frame of the plugin panel: as render_frame, with the bases of the
\* entries as the widgets of the taskbar
plugin_render_frame(by, rd, ws, tls, w, h, sc) ==
    IF ~rd \/ w = 0 \/ h = 0
    THEN /\ frame' = [result |-> "skipped", alloc |-> "none", by |-> by]
         /\ widgets' = ws
         /\ UNCHANGED <<pass, buffers, current_buffer, attached, now>>
    ELSE \E pick \in pool_picks(buffers) :
         \E r \in {render_to_cairo(panel_items, tls, w, <<>>, now, 0, 0)},
            g \in {get_next_buffer(buffers, pick, w * sc, h * sc, TRUE)} :
             /\ widgets' = widget_bases(r.widgets, tls)
             /\ pass' = [ran |-> TRUE, again |-> pass.ran, x |-> r.x,
                         spacer_width |-> r.spacer_width,
                         roll |-> 0, failAt |-> 0]
             /\ now' = now
             /\ buffers' = g.pool
             /\ current_buffer' = g.buffer
             /\ attached' = frame_attach(g.buffer, attached)
             /\ frame' = [result |-> IF g.buffer = 0 THEN "dropped" ELSE "submitted",
                          alloc |-> IF needs_alloc(buffers, pick, w * sc, h * sc)
                                    THEN "ok" ELSE "none",
                          by |-> by]

\* handle_toplevel_manager_toplevel of the plugin; ok = FALSE: calloc
\* returned NULL
plugin_handle_toplevel_manager_toplevel(h, ok) ==
    /\ pc = "loop"
    /\ \A i \in 1..Len(toplevels) : toplevels[i].handle # h
    /\ toplevels' = IF ~ok THEN toplevels
                    ELSE toplevels_insert(toplevels, toplevel_new(h))
    /\ frame' = [NoFrame EXCEPT !.alloc = IF ok THEN "none" ELSE "failed"]
    /\ released' = <<>>
    /\ UNCHANGED <<outputs, output, owned, pollfds, panel_items, widgets,
                   width, height, scale, run_display, buffers, current_buffer,
                   attached, pointer_x, now, pc, pass, press>>

\* handle_toplevel_done of the plugin
plugin_handle_toplevel_done(i) ==
    /\ pc = "loop"
    /\ i \in 1..Len(toplevels)
    /\ plugin_render_frame("done", run_display, widgets, toplevels, width,
                           height, scale)
    /\ released' = <<>>
    /\ UNCHANGED <<outputs, output, owned, pollfds, panel_items, toplevels,
                   width, height, scale, run_display, pointer_x, pc, press>>

\* handle_toplevel_closed of the plugin: toplevel_destroy, then render_frame
plugin_handle_toplevel_closed(i) ==
    /\ pc = "loop"
    /\ i \in 1..Len(toplevels)
    /\ \E d \in {plugin_toplevel_destroy(widgets, toplevels, i)} :
          /\ toplevels' = d.toplevels
          /\ released' = d.released
          /\ plugin_render_frame("closed", run_display, d.widgets,
                                 d.toplevels, width, height, scale)
    /\ UNCHANGED <<outputs, output, owned, pollfds, panel_items, width,
                   height, scale, run_display, pointer_x, pc,
                   press>>

\* layer_surface_configure of the plugin panel
plugin_layer_surface_configure(w, h) ==
    /\ pc = "loop"
    /\ width' = w
    /\ height' = h
    /\ plugin_render_frame("configure", run_display, widgets, toplevels, w, h,
                           scale)
    /\ released' = <<>>
    /\ UNCHANGED <<outputs, output, owned, pollfds, panel_items, toplevels,
                   scale, run_display, pointer_x, pc, press>>

\* wl_pointer_button of the plugin panel: the press goes to the handler the
\* impl of the widget under the pointer names
plugin_wl_pointer_button(state) ==
    /\ pc = "loop"
    /\ \E i \in {IF state = "pressed" THEN hit_widget(widgets, pointer_x, 1)
                 ELSE 0} :
          IF i # 0 /\ widgets[i].impl.on_left_button_press
                        = "toplevel_on_left_button_press"
          THEN \E p \in {toplevel_on_left_button_press(widgets[i])} :
                  /\ press' = [state |-> state, hit |-> i,
                               activated |-> p.activated]
                  /\ pc' = IF p.aborted THEN "aborted" ELSE pc
          ELSE /\ press' = [state |-> state, hit |-> i, activated |-> 0]
               /\ pc' = pc
    /\ frame' = [NoFrame EXCEPT !.by = "button"]
    /\ released' = <<>>
    /\ UNCHANGED <<outputs, output, owned, pollfds, panel_items, toplevels,
                   widgets, width, height, scale, run_display, buffers,
                   current_buffer, attached, pointer_x, now, pass>>

----------------------------------------------------------------------------
(* SpecPlugin: the running plugin panel with its windows, configure events *)
(* with and without a height, and button presses.                          *)

PluginXs == {8, 150, 299}

InitPlugin ==
    /\ InitCommon
    /\ panel_items = <<"T", "S", "C">>
    /\ owned = owned_setup(panel_items, TRUE)
    /\ toplevels = <<>>
    /\ width = 0
    /\ height = 0
    /\ run_display = TRUE
    /\ now = 32759
    /\ pc = "loop"

NextPlugin ==
    \/ \E h \in Handles, ok \in BOOLEAN :
          /\ Len(toplevels) < MaxWindows
          /\ plugin_handle_toplevel_manager_toplevel(h, ok)
    \/ \E i \in 1..MaxWindows : plugin_handle_toplevel_done(i)
    \/ \E i \in 1..MaxWindows : plugin_handle_toplevel_closed(i)
    \/ \E c \in HitConfigures : plugin_layer_surface_configure(c[1], c[2])
    \/ \E i \in 1..2 : pc = "loop" /\ buffer_release(i)
    \/ \E x \in PluginXs : pc = "loop" /\ wl_pointer_motion(x)
    \/ \E state \in {"pressed", "released"} : plugin_wl_pointer_button(state)

SpecPlugin == InitPlugin /\ [][NextPlugin]_vars

----------------------------------------------------------------------------
(* The taskbar plugin's widgets. *)

\* C39: in the plugin panel the assertion of toplevel_from_widget never
\* fails: a press reaches toplevel_on_left_button_press only through a
\* widget whose impl is toplevel_widget_impl, every widget with that impl is
\* the base of a registry entry and has the type WIDGET_TOPLEVEL, as has the
\* base of every entry; and an entry is in neither the widget list nor the
\* registry when toplevel_destroy frees it, so that no widget of the list is
\* the base of a freed entry.
C39_PluginWidgets ==
    /\ pc # "aborted"
    /\ \A j \in 1..Len(toplevels) :
          /\ toplevels[j].base.type = WIDGET_TOPLEVEL
          /\ toplevels[j].base.impl = toplevel_widget_impl
    /\ \A i \in 1..Len(widgets) :
          widgets[i].impl = toplevel_widget_impl =>
              /\ widgets[i].type = WIDGET_TOPLEVEL
              /\ \E j \in 1..Len(toplevels) :
                    toplevels[j].handle = widgets[i].toplevel
    /\ (frame.by = "button" /\ press.activated # 0) =>
          /\ widgets[press.hit].impl = toplevel_widget_impl
          /\ widgets[press.hit].toplevel = press.activated
    /\ \A k \in 1..Len(released) :
          released[k].object = "toplevel" =>
              /\ released[k].linked = {}
              /\ linked(widgets, toplevels, released[k].id) = {}

\* a window whose button was pressed closes while the panel has no height:
\* no frame is drawn, the entry is freed, and the list keeps the clock alone
C39_Witness ==
    /\ press.state = "pressed" /\ press.activated = 1
    /\ frame.by = "closed" /\ frame.result = "skipped"
    /\ Len(released) = 2 /\ released[2] = Free(1, {})
    /\ Len(widgets) = 1
    /\ widgets[1].type = WIDGET_CLOCK
    /\ toplevels = <<>>

====
